---- MODULE Spec2Model ----
(***************************************************************************)
(* Model of the AI listing-generation back end of sellist-server:          *)
(*   - the retry executor (_retryWithBackoff / _isRetryableError) of the   *)
(*     two Gemini services,                                                *)
(*   - the five-phase pipeline GeminiService.analyzeMultipleImages         *)
(*     (gemini2.service.js) over the phase functions of AIAgentic          *)
(*     (ai.agentic.js),                                                    *)
(*   - the condensed two-call pipeline AIAgentic.generateCompleteListing   *)
(*     (ai.agentic2.js).                                                   *)
(***************************************************************************)
EXTENDS Integers, Sequences, FiniteSets, TLC

(***************************************************************************)
(* JavaScript strings: String.prototype.toLowerCase and .includes          *)
(***************************************************************************)
CharAt(s, i) == SubSeq(s, i, i)

UpperChars == "ABCDEFGHIJKLMNOPQRSTUVWXYZ"

LowerChars == "abcdefghijklmnopqrstuvwxyz"

LowerChar(c) ==
  IF \E i \in 1..Len(UpperChars) : CharAt(UpperChars, i) = c
  THEN CharAt(LowerChars, CHOOSE i \in 1..Len(UpperChars) : CharAt(UpperChars, i) = c)
  ELSE c

RECURSIVE ToLowerCase(_)
ToLowerCase(s) ==
  IF s = "" THEN "" ELSE LowerChar(CharAt(s, 1)) \o ToLowerCase(SubSeq(s, 2, Len(s)))

Includes(s, sub) ==
  \E i \in 1..(Len(s) - Len(sub) + 1) : SubSeq(s, i, i + Len(sub) - 1) = sub

(***************************************************************************)
(* JavaScript values: undefined, null, booleans, numbers, strings, arrays  *)
(* and objects, with truthiness, property access, ||, ?? and ?.            *)
(***************************************************************************)
Undefined == [t |-> "undefined"]

JNull == [t |-> "null"]

JBool(b) == [t |-> "bool", b |-> b]

\* a number n/d in lowest terms; JNum(n) is the integer n
JFrac(n, d) == [t |-> "num", n |-> n, d |-> d]

JNum(n) == JFrac(n, 1)

\* the literal 0.5
OneHalf == JFrac(1, 2)

JStr(s) == [t |-> "str", s |-> s]

JArr(a) == [t |-> "arr", a |-> a]

JObj(o) == [t |-> "obj", o |-> o]

EmptyObj == [k \in {} |-> k]

IsNullish(v) == v.t \in {"undefined", "null"}

Truthy(v) ==
  CASE v.t = "undefined" -> FALSE
    [] v.t = "null" -> FALSE
    [] v.t = "bool" -> v.b
    [] v.t = "num" -> v.n # 0
    [] v.t = "str" -> v.s # ""
    [] OTHER -> TRUE

\* v.k for a v that is not null or undefined
Get(v, k) == IF v.t = "obj" /\ k \in DOMAIN v.o THEN v.o[k] ELSE Undefined

\* v?.k
OptGet(v, k) == IF IsNullish(v) THEN Undefined ELSE Get(v, k)

\* an operator that never falls back to its right operand
OrKeepsLeft(a, b) == a

\* a || b
Or(a, b) == IF Truthy(a) THEN a ELSE b

\* a ?? b
Nullish(a, b) == IF IsNullish(a) THEN b ELSE a

\* obj.k = v
Put(obj, k, v) == JObj([x \in DOMAIN obj.o \cup {k} |-> IF x = k THEN v ELSE obj.o[x]])

\* delete obj.k
Delete(obj, k) == JObj([x \in DOMAIN obj.o \ {k} |-> obj.o[x]])

(***************************************************************************)
(* parseFloat on the values the payload mapping receives.  Numbers are     *)
(* integers here; a string parses to the integer its leading digits spell  *)
(* and to NaN when it has none.                                            *)
(***************************************************************************)
Digits == "0123456789"

IsDigit(c) == \E i \in 1..Len(Digits) : CharAt(Digits, i) = c

DigitValue(c) == (CHOOSE i \in 1..Len(Digits) : CharAt(Digits, i) = c) - 1

RECURSIVE LeadingDigits(_, _)
LeadingDigits(s, acc) ==
  IF s # "" /\ IsDigit(CharAt(s, 1))
  THEN LeadingDigits(SubSeq(s, 2, Len(s)), acc * 10 + DigitValue(CharAt(s, 1)))
  ELSE acc

NaN == [t |-> "nan"]

ParseFloatOfString(s) ==
  IF s # "" /\ IsDigit(CharAt(s, 1)) THEN JNum(LeadingDigits(s, 0)) ELSE NaN

ParseFloatBuiltin(v) ==
  CASE v.t = "num" -> v
    [] v.t = "str" -> ParseFloatOfString(v.s)
    [] v.t = "arr" ->
         IF v.a # <<>> /\ v.a[1].t = "num" THEN v.a[1]
         ELSE IF v.a # <<>> /\ v.a[1].t = "str" THEN ParseFloatOfString(v.a[1].s)
         ELSE NaN
    [] OTHER -> NaN

\* a conversion that hands NaN on instead of the default
ParseFloatWithoutDefault(value, defaultValue) == ParseFloatBuiltin(value)

\* GeminiService._parseFloat
ParseFloat(value, defaultValue) ==
  LET parsed == ParseFloatBuiltin(value) IN
    IF parsed = NaN THEN defaultValue ELSE parsed

(***************************************************************************)
(* GeminiService._mapToListingPayload (gemini2.service.js)                 *)
(***************************************************************************)
ModelName == "gemini-2.5-flash"

PricingDisclaimer ==
  "AI-suggested prices are estimates based on market analysis. Seller is solely responsible for final pricing decisions. Actual market value may vary."

ConditionDisclaimer ==
  "AI condition assessment is preliminary. Seller must verify and accurately represent item condition in final listing."

AccuracyDisclaimer ==
  "All AI-generated content is advisory. Seller is responsible for ensuring listing accuracy and compliance with eBay policies."

LiabilityDisclaimer ==
  "AI suggestions do not guarantee sales performance or listing acceptance by eBay."

\* new Date().toISOString()
GeneratedAt == JStr("<ISO-8601 timestamp>")

DefaultMarketAnalysis ==
  JObj([ soldListingsAnalyzed |-> JNum(0),
         averageSoldPrice |-> JNull,
         priceDistribution |-> JStr("No market data available"),
         competitivePosition |-> JStr("Unknown") ])

DefaultPromotedListings ==
  JObj([ recommended |-> JBool(FALSE),
         suggestedAdRate |-> JStr("5%"),
         reasoning |-> JNull ])

MapToListingPayload(data, options) ==
  LET productId == Or(Get(data, "productIdentification"), JObj(EmptyObj))
      condition == Or(Get(data, "condition"), JObj(EmptyObj))
      pricing == Or(Get(data, "pricing"), JObj(EmptyObj))
      shipping == Or(Get(data, "shipping"), JObj(EmptyObj))
      weight == Or(Get(data, "weight"), JObj(EmptyObj))
      dimensions == Or(Get(data, "dimensions"), JObj(EmptyObj))
      seo == Or(Get(data, "seoOptimization"), JObj(EmptyObj))
      recommendations == Or(Get(data, "listingRecommendations"), JObj(EmptyObj))
      quality == Or(Get(data, "qualityChecks"), JObj(EmptyObj))
      compliance == Or(Get(data, "complianceFlags"), JObj(EmptyObj))
      disclaimers == Or(Get(data, "legalDisclaimers"), JObj(EmptyObj))
      strategy == Get(pricing, "strategyRecommendation")
  IN JObj([
    productIdentification |-> JObj([
      brand |-> Or(Get(productId, "brand"), JStr("Unbranded")),
      model |-> Or(Get(productId, "model"), JStr("Unknown")),
      category |-> Or(Or(Get(productId, "category"), Get(data, "category")), JStr("Other")),
      upc |-> Or(Get(productId, "upc"), JNull),
      mpn |-> Or(Get(productId, "mpn"), JNull) ]),
    title |-> Or(Get(data, "title"), JStr("Untitled Item")),
    subtitle |-> Or(Get(data, "subtitle"), JNull),
    description |-> JObj([
      plainText |-> Or(Or(OptGet(Get(data, "description"), "plainText"),
                          Get(data, "description")),
                       JStr("No description available")),
      structure |-> Or(OptGet(Get(data, "description"), "structure"), JNull) ]),
    condition |-> JObj([
      grade |-> Or(Get(condition, "grade"), JStr("Used")),
      numericScore |-> Or(Get(condition, "numericScore"), JNull),
      description |-> Or(Get(condition, "description"), JNull),
      flaws |-> Or(Get(condition, "flaws"), JArr(<<>>)),
      userOverride |-> Or(Get(condition, "userOverride"), JNull) ]),
    weight |-> JObj([
      estimatedLbs |-> Or(Get(weight, "estimatedLbs"), JNum(0)),
      estimatedOz |-> Or(Get(weight, "estimatedOz"), JNum(0)),
      estimatedKg |-> Or(Get(weight, "estimatedKg"), JNum(0)),
      confidenceLevel |-> Or(Get(weight, "confidenceLevel"), JStr("low")),
      requiresManualVerification |->
        Nullish(Get(weight, "requiresManualVerification"), JBool(TRUE)),
      rationale |-> Or(Get(weight, "rationale"), JStr("Weight estimation unavailable")) ]),
    dimensions |-> JObj([
      length |-> Or(Get(dimensions, "length"), JNull),
      width |-> Or(Get(dimensions, "width"), JNull),
      height |-> Or(Get(dimensions, "height"), JNull),
      unit |-> Or(Get(dimensions, "unit"), JStr("inches")),
      confidenceLevel |-> Or(Get(dimensions, "confidenceLevel"), JStr("low")) ]),
    pricing |-> JObj([
      suggestedPrice |-> ParseFloat(Get(pricing, "suggestedPrice"), JNum(0)),
      priceRange |-> JObj([
        min |-> ParseFloat(OptGet(Get(pricing, "priceRange"), "min"), JNum(0)),
        max |-> ParseFloat(OptGet(Get(pricing, "priceRange"), "max"), JNum(0)) ]),
      currency |-> Or(Get(pricing, "currency"), JStr("USD")),
      confidenceScore |-> Or(Get(pricing, "confidenceScore"), OneHalf),
      rationale |-> Or(Get(pricing, "rationale"), JNull),
      marketAnalysis |-> Or(Get(pricing, "marketAnalysis"), DefaultMarketAnalysis),
      strategyRecommendation |-> JObj([
        listingFormat |-> Or(OptGet(strategy, "listingFormat"), JStr("Fixed Price")),
        auctionStartPrice |-> ParseFloat(OptGet(strategy, "auctionStartPrice"), JNull),
        bestOfferEnabled |-> Nullish(OptGet(strategy, "bestOfferEnabled"), JBool(TRUE)),
        bestOfferAutoAccept |-> ParseFloat(OptGet(strategy, "bestOfferAutoAccept"), JNull),
        bestOfferAutoDecline |-> ParseFloat(OptGet(strategy, "bestOfferAutoDecline"), JNull),
        shippingStrategy |-> Or(OptGet(strategy, "shippingStrategy"), JStr("Buyer Pays")),
        reasoning |-> Or(OptGet(strategy, "reasoning"), JStr("Default strategy")) ]) ]),
    shipping |-> JObj([
      recommendedService |->
        Or(Or(Get(shipping, "recommendedService"), Get(shipping, "service")),
           JStr("USPS Priority Mail")),
      estimatedCost |-> ParseFloat(Get(shipping, "estimatedCost"), JNum(0)),
      handlingTime |-> Or(Get(shipping, "handlingTime"), JStr("1 business day")),
      packageType |-> Or(Get(shipping, "packageType"), JStr("Box")),
      requiresSignature |-> Nullish(Get(shipping, "requiresSignature"), JBool(FALSE)),
      fragile |-> Nullish(Get(shipping, "fragile"), JBool(FALSE)),
      sellerTemplateMatch |-> Or(Get(shipping, "sellerTemplateMatch"), JNull) ]),
    itemSpecifics |-> Or(Get(data, "itemSpecifics"), JObj(EmptyObj)),
    seoOptimization |-> JObj([
      primaryKeywords |->
        Or(Or(Get(seo, "primaryKeywords"), Get(data, "seoKeywords")), JArr(<<>>)),
      secondaryKeywords |-> Or(Get(seo, "secondaryKeywords"), JArr(<<>>)),
      longtailKeywords |-> Or(Get(seo, "longtailKeywords"), JArr(<<>>)),
      competitorKeywords |-> Or(Get(seo, "competitorKeywords"), JArr(<<>>)),
      searchVolume |-> Or(Get(seo, "searchVolume"), JNull) ]),
    listingRecommendations |-> JObj([
      bestOfferEnabled |-> Nullish(Get(recommendations, "bestOfferEnabled"), JBool(TRUE)),
      internationalShipping |->
        Nullish(Get(recommendations, "internationalShipping"), JBool(FALSE)),
      returnsAccepted |-> Nullish(Get(recommendations, "returnsAccepted"), JBool(TRUE)),
      returnPeriod |-> Or(Get(recommendations, "returnPeriod"), JStr("30 days")),
      returnShippingPaidBy |-> Or(Get(recommendations, "returnShippingPaidBy"), JStr("Buyer")),
      promotedListings |-> Or(Get(recommendations, "promotedListings"), DefaultPromotedListings) ]),
    qualityChecks |-> JObj([
      imageQuality |-> Or(Get(quality, "imageQuality"), JStr("unknown")),
      imageQualityNotes |-> Or(Get(quality, "imageQualityNotes"), JNull),
      informationCompleteness |-> Or(Get(quality, "informationCompleteness"), OneHalf),
      missingInformation |-> Or(Get(quality, "missingInformation"), JArr(<<>>)),
      recommendedAdditionalPhotos |->
        Or(Get(quality, "recommendedAdditionalPhotos"), JArr(<<>>)) ]),
    complianceFlags |-> JObj([
      brandAuthenticity |-> Or(Get(compliance, "brandAuthenticity"), JStr("uncertain")),
      prohibitedItems |-> Nullish(Get(compliance, "prohibitedItems"), JBool(FALSE)),
      restrictedCategories |-> Nullish(Get(compliance, "restrictedCategories"), JBool(FALSE)),
      requiresAdditionalDisclosures |->
        Nullish(Get(compliance, "requiresAdditionalDisclosures"), JBool(FALSE)),
      warnings |-> Or(Get(compliance, "warnings"), JArr(<<>>)) ]),
    legalDisclaimers |-> JObj([
      pricing |-> Or(Get(disclaimers, "pricing"), JStr(PricingDisclaimer)),
      condition |-> Or(Get(disclaimers, "condition"), JStr(ConditionDisclaimer)),
      accuracy |-> Or(Get(disclaimers, "accuracy"), JStr(AccuracyDisclaimer)),
      liability |-> Or(Get(disclaimers, "liability"), JStr(LiabilityDisclaimer)) ]),
    metadata |-> JObj([
      generatedAt |-> GeneratedAt,
      modelVersion |-> JStr(ModelName),
      processingTime |-> Or(Get(options, "processingTime"), JNull) ]) ])

(***************************************************************************)
(* Errors.  An Error object is identified by its message and by the        *)
(* attempt of the operation that created it.                               *)
(***************************************************************************)
Err(msg, k) == [message |-> msg, attempt |-> k]

(***************************************************************************)
(* Phase functions of AIAgentic (ai.agentic.js).  A model call either      *)
(* rejects with an error or resolves to a text, which is                   *)
(*   "empty"   - the empty string,                                         *)
(*   "prose"   - text without any '{',                                     *)
(*   "garbled" - text with a '{' that is not valid JSON once cleaned,      *)
(*   "json"    - text that cleans and parses to the object in .value.      *)
(***************************************************************************)
Rejects(msg) == [kind |-> "rejects", message |-> msg]

Resolves(class, value) == [kind |-> "resolves", text |-> class, value |-> value]

Ok(v) == [ok |-> TRUE, value |-> v]

Fail(msg) == [ok |-> FALSE, message |-> msg]

NoJsonMessage == "No JSON object found in AI response"

\* the message of the error AIAgentic._parseJson throws
InvalidJsonMessage == "Invalid JSON from AI"

MissingFieldPrefix == "Missing required field: "

\* _cleanJson followed by _parseJson on a non-rejected response: _cleanJson
\* returns "" for a falsy text and throws when the text holds no '{';
\* _parseJson throws when JSON.parse does.
CleanAndParse(resp) ==
  CASE resp.text = "empty" -> Fail(InvalidJsonMessage)
    [] resp.text = "prose" -> Fail(NoJsonMessage)
    [] resp.text = "garbled" -> Fail(InvalidJsonMessage)
    [] OTHER -> Ok(resp.value)

\* a validation that accepts every object
ValidateSchemaAcceptsAll(data, requiredFields) == Ok(data)

\* _validateSchema: the first required field whose value is falsy is reported
ValidateSchema(data, requiredFields) ==
  LET missing == {i \in DOMAIN requiredFields : ~Truthy(Get(data, requiredFields[i]))} IN
    IF missing = {} THEN Ok(data)
    ELSE Fail(MissingFieldPrefix \o
              requiredFields[CHOOSE i \in missing : \A j \in missing : i <= j])

\* visualGrounding
VisualGrounding(resp) ==
  IF resp.kind = "rejects" THEN Fail(resp.message)
  ELSE IF resp.text = "empty" THEN Fail("Empty response from visualGrounding")
  ELSE LET parsed == CleanAndParse(resp) IN
         IF ~parsed.ok THEN parsed
         ELSE ValidateSchema(parsed.value, <<"productIdentification", "compliance">>)

\* extractPhysicalAttributes: no empty-text test, no schema validation
ExtractPhysicalAttributes(resp) ==
  IF resp.kind = "rejects" THEN Fail(resp.message) ELSE CleanAndParse(resp)

\* analyzePricingStrategy: no empty-text test, no schema validation
AnalyzePricingStrategy(resp) ==
  IF resp.kind = "rejects" THEN Fail(resp.message) ELSE CleanAndParse(resp)

PlaceholderValues == {JNull, JStr("null"), JStr("string"), JStr("")}

\* generateListingContent: the post-processing of parsed.itemSpecifics
FillItemSpecific(specifics, key, fallback) ==
  IF ~Truthy(Get(specifics, key)) \/ Get(specifics, key) = JStr("string")
  THEN Put(specifics, key, fallback)
  ELSE specifics

RemovePlaceholders(specifics) ==
  JObj([k \in {x \in DOMAIN specifics.o : specifics.o[x] \notin PlaceholderValues}
          |-> specifics.o[k]])

PostProcessItemSpecifics(parsed, brand, modelName, condition) ==
  LET specifics == Get(parsed, "itemSpecifics") IN
    IF ~Truthy(specifics) THEN Ok(parsed)
    ELSE IF specifics.t # "obj"
    THEN \* strict-mode assignment of a property to a primitive
         Fail("Cannot create property 'Brand' on a primitive value")
    ELSE Ok(Put(parsed, "itemSpecifics",
                RemovePlaceholders(
                  FillItemSpecific(
                    FillItemSpecific(
                      FillItemSpecific(specifics, "Brand", brand),
                      "Model", modelName),
                    "Condition", condition))))

\* generateListingContent
GenerateListingContent(resp, productContext, physical) ==
  LET brand == Or(Get(productContext, "brand"), JStr("Unbranded"))
      modelName == Or(Get(productContext, "model"), JStr("N/A"))
      condition == Or(OptGet(Get(physical, "condition"), "grade"), JStr("Used"))
  IN IF resp.kind = "rejects" THEN Fail(resp.message)
     ELSE LET parsed == CleanAndParse(resp) IN
            IF ~parsed.ok THEN parsed
            ELSE PostProcessItemSpecifics(parsed.value, brand, modelName, condition)

(***************************************************************************)
(* The response sanitizer on texts: AIAgentic._cleanJson,                  *)
(* _attemptJsonRecovery and _parseJson (ai.agentic.js, ai.agentic2.js)     *)
(***************************************************************************)
\* the characters String.prototype.trim and \s remove
Whitespace == {" ", "\n", "\t", "\r"}

IsLetter(c) ==
  \E i \in 1..Len(UpperChars) : CharAt(UpperChars, i) = c \/ CharAt(LowerChars, i) = c

\* the grave accent (U+0060), which a TLA+ string cannot hold, is written ~
\* in the texts of the model
Backtick == "~"

\* the Markdown code fence, three grave accents
Fence == Backtick \o Backtick \o Backtick

StartsWith(s, prefix) ==
  Len(s) >= Len(prefix) /\ SubSeq(s, 1, Len(prefix)) = prefix

EndsWith(s, suffix) ==
  Len(s) >= Len(suffix) /\ SubSeq(s, Len(s) - Len(suffix) + 1, Len(s)) = suffix

RECURSIVE TrimStart(_)
TrimStart(s) ==
  IF s # "" /\ CharAt(s, 1) \in Whitespace THEN TrimStart(SubSeq(s, 2, Len(s))) ELSE s

RECURSIVE TrimEnd(_)
TrimEnd(s) ==
  IF s # "" /\ CharAt(s, Len(s)) \in Whitespace THEN TrimEnd(SubSeq(s, 1, Len(s) - 1)) ELSE s

\* String.prototype.trim
Trim(s) == TrimEnd(TrimStart(s))

RECURSIVE DropLetters(_)
DropLetters(s) ==
  IF s # "" /\ IsLetter(CharAt(s, 1)) THEN DropLetters(SubSeq(s, 2, Len(s))) ELSE s

RECURSIVE DropLine(_)
DropLine(s) ==
  IF s # "" /\ CharAt(s, 1) # "\n" THEN DropLine(SubSeq(s, 2, Len(s))) ELSE s

\* a strip that takes the rest of the first line for the language tag
StripLeadingFenceToLineEnd(s) ==
  IF StartsWith(s, Fence) THEN TrimStart(DropLine(SubSeq(s, 4, Len(s)))) ELSE s

\* cleaned.replace(/^FENCE[a-zA-Z]*\s*/, "")
StripLeadingFence(s) ==
  IF StartsWith(s, Fence) THEN TrimStart(DropLetters(SubSeq(s, 4, Len(s)))) ELSE s

\* cleaned.replace(/\s*FENCE$/i, "")
StripTrailingFence(s) ==
  IF EndsWith(s, Fence) THEN TrimEnd(SubSeq(s, 1, Len(s) - 3)) ELSE s

\* cleaned.replace(/FENCE/g, "")
RECURSIVE RemoveFences(_)
RemoveFences(s) ==
  IF Len(s) < 3 THEN s
  ELSE IF StartsWith(s, Fence) THEN RemoveFences(SubSeq(s, 4, Len(s)))
  ELSE CharAt(s, 1) \o RemoveFences(SubSeq(s, 2, Len(s)))

\* String.prototype.indexOf and lastIndexOf of one character (0-based, -1 if absent)
IndexOf(s, c) ==
  LET at == {i \in 1..Len(s) : CharAt(s, i) = c} IN
    IF at = {} THEN -1 ELSE (CHOOSE i \in at : \A j \in at : i <= j) - 1

LastIndexOf(s, c) ==
  LET at == {i \in 1..Len(s) : CharAt(s, i) = c} IN
    IF at = {} THEN -1 ELSE (CHOOSE i \in at : \A j \in at : i >= j) - 1

\* String.prototype.substring(from, to) for 0 <= from <= to
Substring(s, from, to) == SubSeq(s, from + 1, to)

RECURSIVE Repeat(_, _)
Repeat(c, n) == IF n <= 0 THEN "" ELSE c \o Repeat(c, n - 1)

\* the for loop of _attemptJsonRecovery, from character i on
RECURSIVE ScanStructure(_, _, _)
ScanStructure(s, i, st) ==
  IF i > Len(s) THEN st
  ELSE LET char == CharAt(s, i) IN
    ScanStructure(s, i + 1,
      IF st.escaped THEN [st EXCEPT !.escaped = FALSE]
      ELSE IF char = "\\" THEN [st EXCEPT !.escaped = TRUE]
      ELSE IF char = "\"" THEN [st EXCEPT !.inString = ~@]
      ELSE IF st.inString THEN st
      ELSE IF char = "{" THEN [st EXCEPT !.braceCount = @ + 1]
      ELSE IF char = "}" THEN [st EXCEPT !.braceCount = @ - 1]
      ELSE IF char = "[" THEN [st EXCEPT !.bracketCount = @ + 1]
      ELSE IF char = "]" THEN [st EXCEPT !.bracketCount = @ - 1]
      ELSE st)

\* a recovery that closes the open objects before the open arrays
AttemptJsonRecoveryBracesFirst(truncatedJson) ==
  LET st == ScanStructure(truncatedJson, 1,
              [braceCount |-> 0, bracketCount |-> 0, inString |-> FALSE, escaped |-> FALSE])
  IN truncatedJson \o (IF st.inString THEN "\"" ELSE "")
       \o Repeat("}", st.braceCount) \o Repeat("]", st.bracketCount)

\* a recovery that leaves an unterminated string open
AttemptJsonRecoveryWithoutQuote(truncatedJson) ==
  LET st == ScanStructure(truncatedJson, 1,
              [braceCount |-> 0, bracketCount |-> 0, inString |-> FALSE, escaped |-> FALSE])
  IN truncatedJson \o Repeat("]", st.bracketCount) \o Repeat("}", st.braceCount)

\* _attemptJsonRecovery
AttemptJsonRecovery(truncatedJson) ==
  LET st == ScanStructure(truncatedJson, 1,
              [braceCount |-> 0, bracketCount |-> 0, inString |-> FALSE, escaped |-> FALSE])
  IN truncatedJson \o (IF st.inString THEN "\"" ELSE "")
       \o Repeat("]", st.bracketCount) \o Repeat("}", st.braceCount)

\* a sanitizer that leaves a text without closing brace as it is
CleanJsonWithoutRecovery(text) ==
  IF text = "" THEN Ok("")
  ELSE LET cleaned == Trim(RemoveFences(StripTrailingFence(StripLeadingFence(Trim(text)))))
           firstBrace == IndexOf(cleaned, "{")
           lastBrace == LastIndexOf(cleaned, "}")
       IN IF firstBrace # -1 /\ lastBrace # -1 /\ lastBrace > firstBrace
          THEN Ok(Trim(Substring(cleaned, firstBrace, lastBrace + 1)))
          ELSE IF firstBrace # -1
          THEN Ok(Trim(Substring(cleaned, firstBrace, Len(cleaned))))
          ELSE Fail(NoJsonMessage)

\* a sanitizer that also closes the open structures of the span it extracts
CleanJsonRecoversSpan(text) ==
  IF text = "" THEN Ok("")
  ELSE LET cleaned == Trim(RemoveFences(StripTrailingFence(StripLeadingFence(Trim(text)))))
           firstBrace == IndexOf(cleaned, "{")
           lastBrace == LastIndexOf(cleaned, "}")
       IN IF firstBrace # -1 /\ lastBrace # -1 /\ lastBrace > firstBrace
          THEN Ok(Trim(AttemptJsonRecovery(Substring(cleaned, firstBrace, lastBrace + 1))))
          ELSE IF firstBrace # -1
          THEN Ok(Trim(AttemptJsonRecovery(Substring(cleaned, firstBrace, Len(cleaned)))))
          ELSE Fail(NoJsonMessage)

\* _cleanJson on a string: "" for the empty text, the text between the first
\* opening and the last closing brace, or the recovered text
CleanJson(text) ==
  IF text = "" THEN Ok("")
  ELSE LET cleaned == Trim(RemoveFences(StripTrailingFence(StripLeadingFence(Trim(text)))))
           firstBrace == IndexOf(cleaned, "{")
           lastBrace == LastIndexOf(cleaned, "}")
       IN IF firstBrace # -1 /\ lastBrace # -1 /\ lastBrace > firstBrace
          THEN Ok(Trim(Substring(cleaned, firstBrace, lastBrace + 1)))
          ELSE IF firstBrace # -1
          THEN Ok(Trim(AttemptJsonRecovery(Substring(cleaned, firstBrace, Len(cleaned)))))
          ELSE Fail(NoJsonMessage)

(***************************************************************************)
(* JSON.parse on the texts of the model: objects, arrays, strings with the *)
(* escapes \" \\ \/ \n \t \r \f, integers and the three literals.  The     *)
(* escapes \b and \u, fractions and exponents occur in no text of the      *)
(* model.                                                                  *)
(***************************************************************************)
RECURSIVE SkipWhitespace(_, _)
SkipWhitespace(s, i) ==
  IF i <= Len(s) /\ CharAt(s, i) \in Whitespace THEN SkipWhitespace(s, i + 1) ELSE i

NoParse == [ok |-> FALSE]

Parsed(v, next) == [ok |-> TRUE, value |-> v, next |-> next]

Unescape(e) ==
  CASE e = "n" -> "\n"
    [] e = "t" -> "\t"
    [] e = "r" -> "\r"
    [] e = "f" -> "\f"
    [] OTHER -> e

\* the characters of a string from position i, after its opening quote
RECURSIVE ParseStringBody(_, _, _)
ParseStringBody(s, i, acc) ==
  IF i > Len(s) THEN NoParse
  ELSE LET c == CharAt(s, i) IN
    IF c = "\"" THEN Parsed(acc, i + 1)
    ELSE IF c = "\\"
    THEN IF i + 1 <= Len(s) /\ CharAt(s, i + 1) \in {"\"", "\\", "/", "n", "t", "r", "f"}
         THEN ParseStringBody(s, i + 2, acc \o Unescape(CharAt(s, i + 1)))
         ELSE NoParse
    ELSE IF c \in {"\n", "\t", "\r", "\f"} THEN NoParse
    ELSE ParseStringBody(s, i + 1, acc \o c)

RECURSIVE ParseDigits(_, _, _)
ParseDigits(s, i, acc) ==
  IF i <= Len(s) /\ IsDigit(CharAt(s, i))
  THEN ParseDigits(s, i + 1, acc * Len(Digits) + DigitValue(CharAt(s, i)))
  ELSE Parsed(acc, i)

ParseNumber(s, i) ==
  LET negative == CharAt(s, i) = "-"
      j == IF negative THEN i + 1 ELSE i
  IN IF j > Len(s) \/ ~IsDigit(CharAt(s, j)) THEN NoParse
     ELSE IF CharAt(s, j) = "0" THEN Parsed(JNum(0), j + 1)
     ELSE LET d == ParseDigits(s, j, 0) IN
       Parsed(JNum(IF negative THEN 0 - d.value ELSE d.value), d.next)

LiteralAt(s, i, word) ==
  i + Len(word) - 1 <= Len(s) /\ SubSeq(s, i, i + Len(word) - 1) = word

RECURSIVE ParseValue(_, _)
RECURSIVE ParseMembers(_, _, _)
RECURSIVE ParseElements(_, _, _)

\* a value from position i0, after optional whitespace
ParseValue(s, i0) ==
  LET i == SkipWhitespace(s, i0) IN
    IF i > Len(s) THEN NoParse
    ELSE LET c == CharAt(s, i) IN
      IF c = "{"
      THEN LET j == SkipWhitespace(s, i + 1) IN
             IF j <= Len(s) /\ CharAt(s, j) = "}"
             THEN Parsed(JObj(EmptyObj), j + 1)
             ELSE ParseMembers(s, j, JObj(EmptyObj))
      ELSE IF c = "["
      THEN LET j == SkipWhitespace(s, i + 1) IN
             IF j <= Len(s) /\ CharAt(s, j) = "]"
             THEN Parsed(JArr(<<>>), j + 1)
             ELSE ParseElements(s, j, <<>>)
      ELSE IF c = "\""
      THEN LET r == ParseStringBody(s, i + 1, "") IN
             IF r.ok THEN Parsed(JStr(r.value), r.next) ELSE NoParse
      ELSE IF c = "-" \/ IsDigit(c) THEN ParseNumber(s, i)
      ELSE IF LiteralAt(s, i, "true") THEN Parsed(JBool(TRUE), i + Len("true"))
      ELSE IF LiteralAt(s, i, "false") THEN Parsed(JBool(FALSE), i + Len("false"))
      ELSE IF LiteralAt(s, i, "null") THEN Parsed(JNull, i + Len("null"))
      ELSE NoParse

\* the members of an object from position i, a later member replacing an
\* earlier one of the same name
ParseMembers(s, i, obj) ==
  IF i > Len(s) \/ CharAt(s, i) # "\"" THEN NoParse
  ELSE LET k == ParseStringBody(s, i + 1, "") IN
    IF ~k.ok THEN NoParse
    ELSE LET colon == SkipWhitespace(s, k.next) IN
      IF colon > Len(s) \/ CharAt(s, colon) # ":" THEN NoParse
      ELSE LET v == ParseValue(s, colon + 1) IN
        IF ~v.ok THEN NoParse
        ELSE LET n == SkipWhitespace(s, v.next) IN
          IF n > Len(s) THEN NoParse
          ELSE IF CharAt(s, n) = "}" THEN Parsed(Put(obj, k.value, v.value), n + 1)
          ELSE IF CharAt(s, n) = ","
          THEN ParseMembers(s, SkipWhitespace(s, n + 1), Put(obj, k.value, v.value))
          ELSE NoParse

\* the elements of an array from position i
ParseElements(s, i, arr) ==
  LET v == ParseValue(s, i) IN
    IF ~v.ok THEN NoParse
    ELSE LET n == SkipWhitespace(s, v.next) IN
      IF n > Len(s) THEN NoParse
      ELSE IF CharAt(s, n) = "]" THEN Parsed(JArr(Append(arr, v.value)), n + 1)
      ELSE IF CharAt(s, n) = "," THEN ParseElements(s, n + 1, Append(arr, v.value))
      ELSE NoParse

\* JSON.parse: one value and nothing but whitespace around it
JsonParse(text) ==
  LET r == ParseValue(text, 1) IN
    IF r.ok /\ SkipWhitespace(text, r.next) > Len(text) THEN r ELSE NoParse

\* a parse step that answers an empty object for a text that does not parse
ParseJsonOrEmptyObject(text) ==
  LET r == JsonParse(text) IN
    IF r.ok THEN Ok(r.value) ELSE Ok(JObj(EmptyObj))

\* _parseJson
ParseJson(text) ==
  LET r == JsonParse(text) IN
    IF r.ok THEN Ok(r.value) ELSE Fail(InvalidJsonMessage)

\* the two steps of a phase: parsed = _parseJson(_cleanJson(text))
CleanThenParse(text) ==
  LET cleaned == CleanJson(text) IN
    IF cleaned.ok THEN ParseJson(cleaned.value) ELSE cleaned

(***************************************************************************)
(* Retry classifiers                                                       *)
(***************************************************************************)
\* a classifier without the two JSON entries of the list
IsRetryableErrorNoJson(err) ==
  LET msg == ToLowerCase(err.message) IN
    \/ Includes(msg, "timeout")
    \/ Includes(msg, "rate")
    \/ Includes(msg, "overload")
    \/ Includes(msg, "503")
    \/ Includes(msg, "429")
    \/ Includes(msg, "quota")

\* a classifier that takes every message naming JSON for a parse failure
IsRetryableErrorAnyJson(err) ==
  LET msg == ToLowerCase(err.message) IN
    \/ IsRetryableErrorNoJson(err)
    \/ Includes(msg, "json")

\* gemini2.service.js: msg = err?.message?.toLowerCase() || ""
IsRetryableError(err) ==
  LET msg == ToLowerCase(err.message) IN
    \/ Includes(msg, "timeout")
    \/ Includes(msg, "rate")
    \/ Includes(msg, "overload")
    \/ Includes(msg, "503")
    \/ Includes(msg, "429")
    \/ Includes(msg, "quota")
    \/ Includes(msg, "invalid json")
    \/ Includes(msg, "json parse")

\* ai.agentic.js (GeminiService): msg = (error && error.message) || String(error || "")
AgenticIsRetryableError(err) ==
  LET msg == err.message IN
    \/ \/ Includes(msg, "503")
       \/ Includes(msg, "500")
       \/ Includes(msg, "502")
       \/ Includes(msg, "504")
       \/ Includes(msg, "429")
       \/ Includes(ToLowerCase(msg), "overloaded")
       \/ Includes(msg, "invalid json")
       \/ Includes(msg, "json parse")
       \/ Includes(ToLowerCase(msg), "rate limit")
    \/ \/ Includes(ToLowerCase(msg), "socket")
       \/ Includes(ToLowerCase(msg), "connection")
       \/ Includes(ToLowerCase(msg), "timeout")
       \/ Includes(ToLowerCase(msg), "econnreset")
       \/ Includes(ToLowerCase(msg), "enotfound")

\* gemini.service.js: msg = (error && error.message) || String(error || "")
GeminiIsRetryableError(err) ==
  LET msg == err.message IN
    \/ \/ Includes(msg, "503")
       \/ Includes(msg, "500")
       \/ Includes(msg, "502")
       \/ Includes(msg, "504")
       \/ Includes(msg, "429")
       \/ Includes(ToLowerCase(msg), "overloaded")
    \/ \/ Includes(ToLowerCase(msg), "socket")
       \/ Includes(ToLowerCase(msg), "connection")
       \/ Includes(ToLowerCase(msg), "timeout")

(***************************************************************************)
(* Retry executor: the decisions of _retryWithBackoff                      *)
(***************************************************************************)
MaxRetries == 3

InitialDelayMs == 1500

AgenticInitialDelayMs == 2000

GeminiInitialDelayMs == 2000

\* a catch block that always sleeps and tries again
GivesUpNever(isRetryable, att, max) == FALSE

\* a give-up test that allows one attempt too many
GivesUpOffByOne(isRetryable, att, max) == ~isRetryable \/ att > max

\* a give-up test that ignores the classification
GivesUpAlwaysRetries(isRetryable, att, max) == att >= max

\* the catch block's test  if (!isRetryable || attempt >= this.maxRetries)
GivesUp(isRetryable, att, max) == ~isRetryable \/ att >= max

\* a backoff that never grows
NextDelayConstant(d) == d

\* delay *= 2
NextDelay(d) == d * 2

\* a loop head that leaves the loop one attempt early
LoopEntersOnceFewer(svc, att, max) == IF svc = "gemini2" THEN att + 1 < max ELSE TRUE

\* the loop head: while (attempt < this.maxRetries) in gemini2.service.js,
\* while (true) in ai.agentic.js
LoopEnters(svc, att, max) == IF svc = "gemini2" THEN att < max ELSE TRUE

Classify(svc, err) ==
  IF svc = "gemini2" THEN IsRetryableError(err)
  ELSE IF svc = "agentic" THEN AgenticIsRetryableError(err)
  ELSE GeminiIsRetryableError(err)

(***************************************************************************)
(* State                                                                   *)
(***************************************************************************)
VARIABLES
  \* --- one invocation of _retryWithBackoff on an arbitrary operation ---
  rSvc,       \* which service's executor runs: "gemini2" or "agentic"
  rMax,       \* this.maxRetries
  rInit,      \* this.initialDelayMs
  rpc,        \* "idle", "awaiting" (operation in flight), "sleeping", "returned", "thrown"
  rAttempt,   \* let attempt
  rDelay,     \* let delay
  rCalls,     \* number of times the operation was invoked
  rSleeps,    \* the delays passed to setTimeout, in order
  rErrs,      \* the errors the attempts raised, in order
  rClass,     \* isRetryable as computed for each of them
  rOutcome,   \* the value returned or the error thrown
  \* --- one run of GeminiService.analyzeMultipleImages (gemini2.service.js) ---
  images,             \* the images argument
  pc,                 \* "idle", the phase in progress, "returned" or "thrown"
  wait,               \* what the run is suspended on: "model", "timer" or "none"
  attempt,            \* attempt of the current _retryWithBackoff
  delay,              \* delay of the current _retryWithBackoff
  calls,              \* per phase: invocations of the phase function
  sleeps,             \* per phase: the backoff delays slept
  errs,               \* per phase: the errors its attempts raised
  groundingResult,
  physicalAttributes,
  pricingStrategy,
  listingContent,
  context,            \* the product identification handed to the phase function in flight
  clock,              \* Date.now() - startTime, in ms
  outcome,            \* the value returned or the error thrown
  \* --- one call of AIAgentic.generateCompleteListing (ai.agentic2.js) ---
  cpc,                \* "idle", "snapshot", "listing", "returned" or "thrown"
  cid,                \* const cid
  visualSnapshot,
  cCalls,             \* invocations of the two step functions
  cClock,             \* Date.now() - startTime, in ms
  cOutcome,           \* the value returned or the error thrown
  \* --- one raw model text on its way through _cleanJson and _parseJson ---
  rawText,            \* result.response.text()
  spc,                \* "idle", "received", "cleaned", "recleaned", "parsed", "fenced" or "thrown"
  cleanedText,        \* what _cleanJson(rawText) returned or threw
  recleanedText,      \* what _cleanJson returned or threw on its own output
  parsedResult,       \* what _parseJson returned or threw on the cleaned text
  fencedResult,       \* what the two steps gave for rawText between fences
  \* --- one listing on its way through the content post-processing and
  \*     _mapToListingPayload ---
  npc,                \* "idle", "context", "partial", "content", "mapped" or "thrown"
  nVariant,           \* "five-phase", "condensed", "gemini2" or "agentic"
  nProductContext,    \* productIdentification of the grounding result or snapshot
  nPhysical,          \* result of the physical-attributes phase or snapshot
  nContentOutput,     \* the object the content model call answered
  nListing,           \* what the content phase function returned or threw
  nData,              \* the argument of _mapToListingPayload
  nPayload,           \* the listing payload
  \* --- one call of a phase function of AIAgentic ---
  fpc,                \* "idle", "calling" (model call in flight) or "settled"
  fName,              \* the phase function that is called
  fResponse,          \* what generateContent resolves to or rejects with
  fResult,            \* what the phase function returned or threw
  \* --- several calls of GeminiService.analyzeMultipleImages on the one
  \*     exported instance (gemini2.service.js) ---
  service,            \* the fields of the instance: maxRetries, initialDelayMs, _aiAgentic
  locals,             \* per run: the local variables of its call and of its _retryWithBackoff
  inputs,             \* per run: its argument, the answers to its model calls and its timers
  \* --- one run of GeminiService.analyzeMultipleImages of ai.agentic.js ---
  tpc,        \* "idle", "triage" (visualImageID in flight), "backoff", "downstream", "thrown"
  tImages,    \* the images argument
  tAnswer,    \* what the provider answers to the triage request when it is asked
  tAttempt,   \* attempt of the _retryWithBackoff call around the triage
  tSelected,  \* Ok(the buffers handed to _analyzeMultipleImagesWithContext), or Undefined
  tOutcome,   \* how the run ended
  \* --- one call of DraftingService.batchCreateDrafts ---
  dpc,        \* "idle", "inventory" / "offers" (that request in flight), "done"
  dDrafts,    \* the drafts argument
  dI,         \* the loop variable i
  dResults,   \* results
  dLog,       \* per batch sent: its chunk and how its two requests were answered
  \* --- one call of SetupService.ensureDefaultPolicies ---
  upc,        \* "idle", "optIn", "propagation", "fetch", "fulfillment", "payment", "return", "verify", "returned", "thrown"
  uWait,      \* "call" (request in flight), "timer" (a setTimeout pending) or "none"
  uAttempt,   \* let attempt of the retry call in progress
  uDelay,     \* const delay of its last backoff
  uPolicies,  \* const policies
  uErrors,    \* const errors
  uFinal,     \* const finalPolicies
  uLog,       \* the operations invoked, each with the error it ended in
  uOutcome    \* the value returned or the error thrown

retryVars ==
  <<rSvc, rMax, rInit, rpc, rAttempt, rDelay, rCalls, rSleeps, rErrs, rClass, rOutcome>>

pipelineVars ==
  <<images, pc, wait, attempt, delay, calls, sleeps, errs, groundingResult,
    physicalAttributes, pricingStrategy, listingContent, context, clock, outcome>>

condensedVars == <<cpc, cid, visualSnapshot, cCalls, cClock, cOutcome>>

sanitizeVars ==
  <<rawText, spc, cleanedText, recleanedText, parsedResult, fencedResult>>

normalizeVars ==
  <<npc, nVariant, nProductContext, nPhysical, nContentOutput, nListing, nData, nPayload>>

phaseVars == <<fpc, fName, fResponse, fResult>>

concurrentVars == <<service, locals, inputs>>

triageVars == <<tpc, tImages, tAnswer, tAttempt, tSelected, tOutcome>>

draftVars == <<dpc, dDrafts, dI, dResults, dLog>>

setupVars == <<upc, uWait, uAttempt, uDelay, uPolicies, uErrors, uFinal, uLog, uOutcome>>

vars == <<retryVars, pipelineVars, condensedVars, sanitizeVars, normalizeVars, phaseVars, concurrentVars, triageVars, draftVars, setupVars>>

Phases == {"grounding", "physical", "pricing", "content"}

Returned(v) == [kind |-> "returned", value |-> v]

Thrown(e) == [kind |-> "thrown", error |-> e]

NoOutcome == [kind |-> "none"]

\* no retry in progress
RetryParked ==
  /\ rSvc = "gemini2"
  /\ rMax = MaxRetries
  /\ rInit = InitialDelayMs
  /\ rpc = "idle"
  /\ rAttempt = 0
  /\ rDelay = 0
  /\ rCalls = 0
  /\ rSleeps = <<>>
  /\ rErrs = <<>>
  /\ rClass = <<>>
  /\ rOutcome = NoOutcome

\* no pipeline run in progress
PipelineParked ==
  /\ images = Undefined
  /\ pc = "idle"
  /\ wait = "none"
  /\ attempt = 0
  /\ delay = 0
  /\ calls = [p \in Phases |-> 0]
  /\ sleeps = [p \in Phases |-> <<>>]
  /\ errs = [p \in Phases |-> <<>>]
  /\ groundingResult = Undefined
  /\ physicalAttributes = Undefined
  /\ pricingStrategy = Undefined
  /\ listingContent = Undefined
  /\ context = Undefined
  /\ clock = 0
  /\ outcome = NoOutcome

Steps == {"snapshot", "listing"}

\* no call of generateCompleteListing in progress
CondensedParked ==
  /\ cpc = "idle"
  /\ cid = Undefined
  /\ visualSnapshot = Undefined
  /\ cCalls = [s \in Steps |-> 0]
  /\ cClock = 0
  /\ cOutcome = NoOutcome

\* no listing being normalized
NormalizeParked ==
  /\ npc = "idle"
  /\ nVariant = "five-phase"
  /\ nProductContext = Undefined
  /\ nPhysical = Undefined
  /\ nContentOutput = Undefined
  /\ nListing = NoOutcome
  /\ nData = Undefined
  /\ nPayload = Undefined

\* the runs of the pipeline that share the exported instance
Runs == {"a", "b"}

\* the instance as the constructor leaves it (lines 9-31)
Constructed ==
  [maxRetries |-> MaxRetries, initialDelayMs |-> InitialDelayMs, aiAgentic |-> "null"]

\* the local variables of a call that has not begun
IdleRun ==
  [ images |-> Undefined, pc |-> "idle", wait |-> "none", attempt |-> 0, delay |-> 0,
    groundingResult |-> Undefined, physicalAttributes |-> Undefined,
    pricingStrategy |-> Undefined, listingContent |-> Undefined, outcome |-> NoOutcome ]

\* no interleaved runs in progress
ConcurrentParked ==
  /\ service = Constructed
  /\ locals = [r \in Runs |-> IdleRun]
  /\ inputs = [r \in Runs |-> <<>>]

\* no phase function being called on its own
PhaseParked ==
  /\ fpc = "idle"
  /\ fName = "visualGrounding"
  /\ fResponse = Undefined
  /\ fResult = NoOutcome

\* no run of the triage entry point in progress
TriageParked ==
  /\ tpc = "idle"
  /\ tImages = [isArray |-> FALSE, items |-> <<>>]
  /\ tAnswer = Undefined
  /\ tAttempt = 0
  /\ tSelected = Undefined
  /\ tOutcome = NoOutcome

\* no bulk draft creation in progress
DraftParked ==
  /\ dpc = "idle"
  /\ dDrafts = <<>>
  /\ dI = 0
  /\ dResults = <<>>
  /\ dLog = <<>>

\* no policy setup in progress
SetupParked ==
  /\ upc = "idle"
  /\ uWait = "none"
  /\ uAttempt = 0
  /\ uDelay = 0
  /\ uPolicies = Undefined
  /\ uErrors = <<>>
  /\ uFinal = Undefined
  /\ uLog = <<>>
  /\ uOutcome = NoOutcome

\* no text being sanitized
SanitizeParked ==
  /\ rawText = ""
  /\ spc = "idle"
  /\ cleanedText = NoOutcome
  /\ recleanedText = NoOutcome
  /\ parsedResult = NoOutcome
  /\ fencedResult = NoOutcome

(***************************************************************************)
(* The retry executor on an arbitrary operation                            *)
(***************************************************************************)
MaxRetriesBound == 3

RetryLimits == 0..MaxRetriesBound

Services == {"gemini2", "agentic"}

\* messages of the errors an operation may raise
ErrorMessages ==
  { "Request failed with status code 429",
    "Request failed with status code 500",
    "Request failed with status code 502",
    "Request failed with status code 503",
    "Request failed with status code 504",
    "Request timeout",
    "The model is overloaded",
    "Rate limit exceeded",
    "Quota exceeded",
    "read ECONNRESET",
    "socket hang up",
    "Connection refused",
    "400 bad request",
    "Invalid JSON from AI",
    "No JSON object found in AI response",
    "Missing required field: compliance" }

\* the value the operation's k-th invocation resolves to
OpResult(k) == [t |-> "result", attempt |-> k]

InitRetry ==
  /\ rSvc \in Services
  /\ rMax \in RetryLimits
  /\ rInit = (IF rSvc = "gemini2" THEN InitialDelayMs ELSE AgenticInitialDelayMs)
  /\ rpc = "idle"
  /\ rAttempt = 0
  /\ rDelay = 0
  /\ rCalls = 0
  /\ rSleeps = <<>>
  /\ rErrs = <<>>
  /\ rClass = <<>>
  /\ rOutcome = NoOutcome
  /\ PipelineParked
  /\ CondensedParked
  /\ SanitizeParked
  /\ NormalizeParked
  /\ PhaseParked
  /\ ConcurrentParked
  /\ TriageParked
  /\ DraftParked
  /\ SetupParked

\* _retryWithBackoff is called: attempt = 0, delay = initialDelayMs, then the
\* loop head; the first invocation of the operation is left in flight.
RetryInvoke ==
  /\ rpc = "idle"
  /\ rDelay' = rInit
  /\ IF LoopEnters(rSvc, 0, rMax)
     THEN /\ rAttempt' = 1
          /\ rCalls' = rCalls + 1
          /\ rpc' = "awaiting"
          /\ rOutcome' = rOutcome
     ELSE \* the loop body never runs: the async function returns undefined
          /\ rAttempt' = 0
          /\ rCalls' = rCalls
          /\ rpc' = "returned"
          /\ rOutcome' = Returned(Undefined)
  /\ UNCHANGED <<rSvc, rMax, rInit, rSleeps, rErrs, rClass, pipelineVars, condensedVars, sanitizeVars, normalizeVars, phaseVars, concurrentVars, triageVars, draftVars, setupVars>>

\* return await fn()  resolves
RetryOpSucceeds ==
  /\ rpc = "awaiting"
  /\ rpc' = "returned"
  /\ rOutcome' = Returned(OpResult(rAttempt))
  /\ UNCHANGED <<rSvc, rMax, rInit, rAttempt, rDelay, rCalls, rSleeps, rErrs, rClass, pipelineVars, condensedVars, sanitizeVars, normalizeVars, phaseVars, concurrentVars, triageVars, draftVars, setupVars>>

\* await fn() rejects: the catch block up to  throw err  or to the setTimeout
RetryOpFails(msg) ==
  /\ rpc = "awaiting"
  /\ LET err == Err(msg, rAttempt)
         isRetryable == Classify(rSvc, err)
     IN /\ rErrs' = Append(rErrs, err)
        /\ rClass' = Append(rClass, isRetryable)
        /\ IF GivesUp(isRetryable, rAttempt, rMax)
           THEN /\ rpc' = "thrown"
                /\ rOutcome' = Thrown(err)
                /\ rSleeps' = rSleeps
           ELSE /\ rpc' = "sleeping"
                /\ rOutcome' = rOutcome
                /\ rSleeps' = Append(rSleeps, rDelay)
  /\ UNCHANGED <<rSvc, rMax, rInit, rAttempt, rDelay, rCalls, pipelineVars, condensedVars, sanitizeVars, normalizeVars, phaseVars, concurrentVars, triageVars, draftVars, setupVars>>

\* the backoff timer fires: delay *= 2, loop head, attempt++, fn() again
RetryTimerFires ==
  /\ rpc = "sleeping"
  /\ rDelay' = NextDelay(rDelay)
  /\ IF LoopEnters(rSvc, rAttempt, rMax)
     THEN /\ rAttempt' = rAttempt + 1
          /\ rCalls' = rCalls + 1
          /\ rpc' = "awaiting"
          /\ rOutcome' = rOutcome
     ELSE /\ rAttempt' = rAttempt
          /\ rCalls' = rCalls
          /\ rpc' = "returned"
          /\ rOutcome' = Returned(Undefined)
  /\ UNCHANGED <<rSvc, rMax, rInit, rSleeps, rErrs, rClass, pipelineVars, condensedVars, sanitizeVars, normalizeVars, phaseVars, concurrentVars, triageVars, draftVars, setupVars>>

NextRetry ==
  \/ RetryInvoke
  \/ RetryOpSucceeds
  \/ \E msg \in ErrorMessages : RetryOpFails(msg)
  \/ RetryTimerFires

SpecRetry == InitRetry /\ [][NextRetry]_vars

(***************************************************************************)
(* GeminiService.analyzeMultipleImages (gemini2.service.js): inputs        *)
(***************************************************************************)
MaxImagesPerRequest == 16

MaxImageSizeMB == 20

AllowedMimeTypes == {"image/jpeg", "image/jpg", "image/png", "image/webp"}

\* an element of the images argument: { base64, mimeType }, with the decoded
\* size of base64 in MB
Image(base64, mimeType, sizeMB) ==
  [base64 |-> base64, mimeType |-> mimeType, sizeMB |-> sizeMB]

Jpeg == Image("/9j/4AAQ", JStr("image/jpeg"), 1)

PngWithoutMimeType == Image("iVBORw0K", Undefined, 2)

Gif == Image("R0lGODlh", JStr("image/gif"), 1)

Oversized == Image("/9j/4AAQ", JStr("image/jpeg"), MaxImageSizeMB + 1)

WithoutData == Image("", JStr("image/png"), 0)

ArrayOf(items) == [isArray |-> TRUE, items |-> items]

NotAnArray == [isArray |-> FALSE, items |-> <<>>]

ImageInputs ==
  { NotAnArray,
    ArrayOf(<<>>),
    ArrayOf(<<Jpeg>>),
    ArrayOf(<<Jpeg, PngWithoutMimeType>>),
    ArrayOf(<<Jpeg, Gif>>),
    ArrayOf(<<Jpeg, Oversized>>),
    ArrayOf(<<WithoutData, Jpeg>>),
    ArrayOf([i \in 1..(MaxImagesPerRequest + 1) |-> Jpeg]) }

\* a validation that never measures the decoded size
ValidateImageIgnoresSize(img) ==
  LET mimeType == IF img.mimeType = Undefined THEN JStr("image/jpeg") ELSE img.mimeType IN
    IF img.base64 = "" THEN Fail("Missing base64 image data")
    ELSE IF ~(mimeType.t = "str" /\ mimeType.s \in AllowedMimeTypes)
    THEN Fail("Unsupported mime type")
    ELSE Ok(Undefined)

\* _validateImage(base64, mimeType = "image/jpeg")
ValidateImage(img) ==
  LET mimeType == IF img.mimeType = Undefined THEN JStr("image/jpeg") ELSE img.mimeType IN
    IF img.base64 = "" THEN Fail("Missing base64 image data")
    ELSE IF ~(mimeType.t = "str" /\ mimeType.s \in AllowedMimeTypes)
    THEN Fail("Unsupported mime type")
    ELSE IF img.sizeMB > MaxImageSizeMB THEN Fail("Image too large")
    ELSE Ok(Undefined)

\* lines 54-83: the checks on the images argument, in the order of the code
ValidateImages(imgs) ==
  IF ~imgs.isArray \/ Len(imgs.items) = 0 THEN Fail("Images array must not be empty")
  ELSE IF Len(imgs.items) > MaxImagesPerRequest THEN Fail("Too many images. Maximum 16 allowed")
  ELSE LET bad == {i \in DOMAIN imgs.items : ~ValidateImage(imgs.items[i]).ok} IN
         IF bad = {} THEN Ok(Undefined)
         ELSE ValidateImage(imgs.items[CHOOSE i \in bad : \A j \in bad : i <= j])

(***************************************************************************)
(* Model responses of the four phases                                      *)
(***************************************************************************)
ProviderErrors == {"Request failed with status code 503", "400 bad request"}

NonJsonResponses ==
  {Rejects(m) : m \in ProviderErrors}
    \cup {Resolves(c, Undefined) : c \in {"empty", "prose", "garbled"}}

ProductIdentification(confidence) ==
  JObj([ category |-> JStr("Athletic Shoes"),
         brand |-> JStr("Nike"),
         model |-> JStr("Air Max 90"),
         confidence |-> JStr(confidence),
         notes |-> JStr("Logo visible on tongue"),
         upc |-> JNull,
         mpn |-> JNull ])

Compliance(isEbayCompliant, level) ==
  JObj([ isEbayCompliant |-> JBool(isEbayCompliant),
         violationCategory |-> IF isEbayCompliant THEN JNull ELSE JStr("weapons"),
         reason |-> IF isEbayCompliant THEN JNull ELSE JStr("weapon"),
         level |-> JStr(level) ])

Recommendations(reviewNeeded) ==
  JObj([ proceed |-> JBool(~reviewNeeded),
         reviewNeeded |-> JBool(reviewNeeded),
         guidance |-> JStr("Brief guidance") ])

GroundingOutput(isEbayCompliant, reviewNeeded, confidence, level) ==
  JObj([ productIdentification |-> ProductIdentification(confidence),
         compliance |-> Compliance(isEbayCompliant, level),
         recommendations |-> Recommendations(reviewNeeded) ])

\* what the grounding call may produce: every combination of the flags the
\* prompt asks for, and objects that lack one of the three blocks
GroundingObjects ==
  { GroundingOutput(c, r, conf, lvl) :
      c \in BOOLEAN, r \in BOOLEAN, conf \in {"HIGH", "LOW"},
      lvl \in {"ALLOWED", "RESTRICTED"} }
  \cup
  { JObj(EmptyObj),
    JObj([productIdentification |-> ProductIdentification("HIGH")]),
    JObj([compliance |-> Compliance(TRUE, "ALLOWED")]),
    JObj([ productIdentification |-> ProductIdentification("HIGH"),
           compliance |-> Compliance(TRUE, "ALLOWED") ]),
    JObj([ productIdentification |-> ProductIdentification("HIGH"),
           compliance |-> Compliance(FALSE, "PROHIBITED") ]) }

GroundingResponses ==
  NonJsonResponses \cup {Resolves("json", v) : v \in GroundingObjects}

PhysicalObjects ==
  { JObj(EmptyObj),
    JObj([ weight |-> JObj([ estimatedLbs |-> JNum(2), estimatedOz |-> JNum(32),
                             estimatedKg |-> JNum(1), confidenceLevel |-> JStr("medium"),
                             requiresManualVerification |-> JBool(FALSE),
                             rationale |-> JStr("Typical pair of shoes") ]),
           dimensions |-> JObj([ length |-> JNum(13), width |-> JNum(8), height |-> JNum(5),
                                 unit |-> JStr("inches"),
                                 confidenceLevel |-> JStr("medium") ]),
           condition |-> JObj([ grade |-> JStr("Good"), numericScore |-> JNum(7),
                                description |-> JStr("Light wear"),
                                flaws |-> JArr(<<JStr("scuffed toe")>>) ]),
           qualityChecks |-> JObj([ imageQuality |-> JStr("good"),
                                    informationCompleteness |-> JNum(1) ]) ]) }

PhysicalResponses ==
  NonJsonResponses \cup {Resolves("json", v) : v \in PhysicalObjects}

PricingObjects ==
  { JObj(EmptyObj),
    JObj([ pricing |-> JObj([ suggestedPrice |-> JNum(45),
                              priceRange |-> JObj([min |-> JNum(35), max |-> JStr("60")]),
                              currency |-> JStr("USD"),
                              confidenceScore |-> JNum(0),
                              strategyRecommendation |->
                                JObj([ listingFormat |-> JStr("Auction"),
                                       bestOfferEnabled |-> JBool(FALSE) ]) ]),
           shipping |-> JObj([ service |-> JStr("USPS Ground Advantage"),
                               estimatedCost |-> JNum(9) ]) ]) }

PricingResponses ==
  NonJsonResponses \cup {Resolves("json", v) : v \in PricingObjects}

ContentObjects ==
  { JObj(EmptyObj),
    JObj([ title |-> JStr("Nike Air Max 90 Running Shoes Good"),
           subtitle |-> JNull,
           description |-> JObj([plainText |-> JStr("Nike Air Max 90 in good condition.")]),
           itemSpecifics |-> JObj([ Brand |-> JStr("string"), Model |-> JNull,
                                    Color |-> JStr("Red"), Material |-> JStr("") ]),
           seoOptimization |-> JObj([primaryKeywords |-> JArr(<<JStr("nike")>>)]),
           complianceFlags |-> JObj([brandAuthenticity |-> JStr("likely authentic")]) ]) }

ContentResponses ==
  NonJsonResponses \cup {Resolves("json", v) : v \in ContentObjects}

(***************************************************************************)
(* GeminiService.analyzeMultipleImages: outcomes                           *)
(***************************************************************************)
\* _correlationId()
CorrelationId == JStr("gemini-<timestamp>-<random>")

TypeErrorMessage == "Cannot read properties of undefined"

\* lines 147-156
RejectedOutcome(grounding, processingTime) ==
  JObj([ success |-> JBool(FALSE),
         rejected |-> JBool(TRUE),
         reason |-> JStr("EBAY_POLICY_VIOLATION"),
         details |-> grounding,
         metadata |-> JObj([ correlationId |-> CorrelationId,
                             processingTime |-> JNum(processingTime) ]) ])

\* a review object that is marked rejected as well
ReviewOutcomeAlsoRejected(grounding, processingTime) ==
  JObj([ success |-> JBool(FALSE),
         rejected |-> JBool(TRUE),
         requiresReview |-> JBool(TRUE),
         reason |-> JStr("MANUAL_REVIEW_REQUIRED"),
         details |-> grounding,
         metadata |-> JObj([ correlationId |-> CorrelationId,
                             processingTime |-> JNum(processingTime) ]) ])

\* lines 166-176
ReviewOutcome(grounding, processingTime) ==
  JObj([ success |-> JBool(FALSE),
         rejected |-> JBool(FALSE),
         requiresReview |-> JBool(TRUE),
         reason |-> JStr("MANUAL_REVIEW_REQUIRED"),
         details |-> grounding,
         metadata |-> JObj([ correlationId |-> CorrelationId,
                             processingTime |-> JNum(processingTime) ]) ])

\* a gate that looks at the review flag before the compliance flag
GroundingGateReviewFirst(grounding) ==
  IF /\ ~IsNullish(Get(grounding, "recommendations"))
     /\ Truthy(Get(Get(grounding, "recommendations"), "reviewNeeded")) THEN "review"
  ELSE IF ~Truthy(Get(Get(grounding, "compliance"), "isEbayCompliant")) THEN "rejected"
  ELSE IF IsNullish(Get(grounding, "recommendations")) THEN "typeError"
  ELSE "continue"

\* a gate without the compliance test
GroundingGateIgnoresCompliance(grounding) ==
  IF IsNullish(Get(grounding, "recommendations")) THEN "typeError"
  ELSE IF Truthy(Get(Get(grounding, "recommendations"), "reviewNeeded")) THEN "review"
  ELSE "continue"

\* lines 139-177: what the run does with the grounding result
GroundingGate(grounding) ==
  IF ~Truthy(Get(Get(grounding, "compliance"), "isEbayCompliant")) THEN "rejected"
  ELSE IF IsNullish(Get(grounding, "recommendations")) THEN "typeError"
  ELSE IF Truthy(Get(Get(grounding, "recommendations"), "reviewNeeded")) THEN "review"
  ELSE "continue"

\* an assembly that lets the content answer name the product
AssembledDataPrefersContent(grounding, physical, pricingResult, content) ==
  JObj([ productIdentification |-> Or(Get(content, "productIdentification"),
                                      Get(grounding, "productIdentification")),
         title |-> Get(content, "title"),
         subtitle |-> Get(content, "subtitle"),
         description |-> Get(content, "description"),
         condition |-> Get(physical, "condition"),
         weight |-> Get(physical, "weight"),
         dimensions |-> Get(physical, "dimensions"),
         pricing |-> Get(pricingResult, "pricing"),
         shipping |-> Get(pricingResult, "shipping"),
         itemSpecifics |-> Get(content, "itemSpecifics"),
         seoOptimization |-> Get(content, "seoOptimization"),
         listingRecommendations |-> Get(content, "listingRecommendations"),
         qualityChecks |-> Get(physical, "qualityChecks"),
         complianceFlags |-> Get(content, "complianceFlags") ])

\* lines 253-271: the argument of _mapToListingPayload
AssembledData(grounding, physical, pricingResult, content) ==
  JObj([ productIdentification |-> Get(grounding, "productIdentification"),
         title |-> Get(content, "title"),
         subtitle |-> Get(content, "subtitle"),
         description |-> Get(content, "description"),
         condition |-> Get(physical, "condition"),
         weight |-> Get(physical, "weight"),
         dimensions |-> Get(physical, "dimensions"),
         pricing |-> Get(pricingResult, "pricing"),
         shipping |-> Get(pricingResult, "shipping"),
         itemSpecifics |-> Get(content, "itemSpecifics"),
         seoOptimization |-> Get(content, "seoOptimization"),
         listingRecommendations |-> Get(content, "listingRecommendations"),
         qualityChecks |-> Get(physical, "qualityChecks"),
         complianceFlags |-> Get(content, "complianceFlags") ])

FinalPayload(grounding, physical, pricingResult, content, processingTime) ==
  MapToListingPayload(AssembledData(grounding, physical, pricingResult, content),
                      JObj([processingTime |-> JNum(processingTime)]))

(***************************************************************************)
(* GeminiService.analyzeMultipleImages: the run.  A step runs from one     *)
(* suspension point (a model call in flight, a backoff timer) to the next. *)
(***************************************************************************)
Init ==
  /\ PipelineParked
  /\ RetryParked
  /\ CondensedParked
  /\ SanitizeParked
  /\ NormalizeParked
  /\ PhaseParked
  /\ ConcurrentParked
  /\ TriageParked
  /\ DraftParked
  /\ SetupParked

\* a driver whose backoff delay outlives the phase that grew it
BeginKeepsDelay(phase) ==
  /\ delay' = delay
  /\ IF LoopEnters("gemini2", 0, MaxRetries)
     THEN /\ pc' = phase
          /\ wait' = "model"
          /\ attempt' = 1
          /\ calls' = [calls EXCEPT ![phase] = @ + 1]
          /\ outcome' = outcome
     ELSE /\ pc' = "thrown"
          /\ wait' = "none"
          /\ attempt' = 0
          /\ calls' = calls
          /\ outcome' = Thrown(Err(TypeErrorMessage, 0))
  /\ UNCHANGED <<sleeps, errs, sanitizeVars, normalizeVars, phaseVars, concurrentVars, triageVars, draftVars, setupVars>>

\* a driver that goes from grounding straight to pricing
BeginSkipsPhysical(phase) ==
  LET started == IF phase = "physical" THEN "pricing" ELSE phase IN
  /\ delay' = InitialDelayMs
  /\ IF LoopEnters("gemini2", 0, MaxRetries)
     THEN /\ pc' = started
          /\ wait' = "model"
          /\ attempt' = 1
          /\ calls' = [calls EXCEPT ![started] = @ + 1]
          /\ outcome' = outcome
     ELSE /\ pc' = "thrown"
          /\ wait' = "none"
          /\ attempt' = 0
          /\ calls' = calls
          /\ outcome' = Thrown(Err(TypeErrorMessage, 0))
  /\ UNCHANGED <<sleeps, errs, sanitizeVars, normalizeVars, phaseVars, concurrentVars, triageVars, draftVars, setupVars>>

\* await this._retryWithBackoff(() => phase function, name, correlationId):
\* attempt = 0, delay = initialDelayMs, loop head, attempt++, fn() in flight.
\* Were the loop not entered, the call would resolve to undefined and the
\* property read that follows it would throw a TypeError.
Begin(phase) ==
  /\ delay' = InitialDelayMs
  /\ IF LoopEnters("gemini2", 0, MaxRetries)
     THEN /\ pc' = phase
          /\ wait' = "model"
          /\ attempt' = 1
          /\ calls' = [calls EXCEPT ![phase] = @ + 1]
          /\ outcome' = outcome
     ELSE /\ pc' = "thrown"
          /\ wait' = "none"
          /\ attempt' = 0
          /\ calls' = calls
          /\ outcome' = Thrown(Err(TypeErrorMessage, 0))
  /\ UNCHANGED <<sleeps, errs, sanitizeVars, normalizeVars, phaseVars, concurrentVars, triageVars, draftVars, setupVars>>

\* the model calls of one run that fail, over the four phases
Failures == Len(errs.grounding) + Len(errs.physical) + Len(errs.pricing) + Len(errs.content)

\* a run is followed through at most MaxFailures failing model calls
MaxFailures == 3

Admitted(result) == result.ok \/ Failures < MaxFailures

\* the phase function threw msg: the catch block of _retryWithBackoff
AttemptFails(phase, msg) ==
  LET err == Err(msg, attempt)
      isRetryable == IsRetryableError(err)
  IN /\ errs' = [errs EXCEPT ![phase] = Append(@, err)]
     /\ IF GivesUp(isRetryable, attempt, MaxRetries)
        THEN /\ pc' = "thrown"
             /\ wait' = "none"
             /\ outcome' = Thrown(err)
             /\ sleeps' = sleeps
        ELSE /\ pc' = pc
             /\ wait' = "timer"
             /\ outcome' = outcome
             /\ sleeps' = [sleeps EXCEPT ![phase] = Append(@, delay)]
     /\ UNCHANGED <<attempt, delay, calls, context, sanitizeVars, normalizeVars, phaseVars, concurrentVars, triageVars, draftVars, setupVars>>

Return(value) ==
  /\ pc' = "returned"
  /\ wait' = "none"
  /\ outcome' = Returned(value)
  /\ UNCHANGED <<attempt, delay, calls, sleeps, errs, context, sanitizeVars, normalizeVars, phaseVars, concurrentVars, triageVars, draftVars, setupVars>>

Throw(err) ==
  /\ pc' = "thrown"
  /\ wait' = "none"
  /\ outcome' = Thrown(err)
  /\ UNCHANGED <<attempt, delay, calls, sleeps, errs, context, sanitizeVars, normalizeVars, phaseVars, concurrentVars, triageVars, draftVars, setupVars>>

\* lines 45-131: validation of the images, then phase 1 is started
AnalyzeMultipleImages(imgs) ==
  /\ pc = "idle"
  /\ images' = imgs
  /\ LET checked == ValidateImages(imgs) IN
       IF checked.ok
       THEN Begin("grounding") /\ context' = Undefined
       ELSE Throw(Err(checked.message, 0))
  /\ UNCHANGED <<groundingResult, physicalAttributes, pricingStrategy, listingContent,
                 clock, retryVars, condensedVars, sanitizeVars, normalizeVars, phaseVars, concurrentVars, triageVars, draftVars, setupVars>>

\* the phase 1 model call settles: visualGrounding, then lines 133-193
GroundingSettles(resp) ==
  /\ pc = "grounding"
  /\ wait = "model"
  /\ clock' = clock + 1
  /\ LET result == VisualGrounding(resp) IN
       IF ~result.ok
       THEN /\ AttemptFails("grounding", result.message)
            /\ groundingResult' = groundingResult
       ELSE /\ groundingResult' = result.value
            /\ CASE GroundingGate(result.value) = "rejected" ->
                      Return(RejectedOutcome(result.value, clock'))
                 [] GroundingGate(result.value) = "typeError" ->
                      Throw(Err(TypeErrorMessage, 0))
                 [] GroundingGate(result.value) = "review" ->
                      Return(ReviewOutcome(result.value, clock'))
                 [] OTHER -> /\ Begin("physical")
                             /\ context' = Get(result.value, "productIdentification")
  /\ UNCHANGED <<images, physicalAttributes, pricingStrategy, listingContent, retryVars, condensedVars, sanitizeVars, normalizeVars, phaseVars, concurrentVars, triageVars, draftVars, setupVars>>

\* the same step, followed while the run has failures left to explore
GroundingResponds(resp) ==
  /\ Admitted(VisualGrounding(resp))
  /\ GroundingSettles(resp)

\* the phase 2 model call settles: extractPhysicalAttributes, then lines 195-217
PhysicalAttributesSettles(resp) ==
  /\ pc = "physical"
  /\ wait = "model"
  /\ clock' = clock + 1
  /\ LET result == ExtractPhysicalAttributes(resp) IN
       IF ~result.ok
       THEN /\ AttemptFails("physical", result.message)
            /\ physicalAttributes' = physicalAttributes
       ELSE /\ physicalAttributes' = result.value
            /\ Begin("pricing")
            /\ context' = Get(groundingResult, "productIdentification")
  /\ UNCHANGED <<images, groundingResult, pricingStrategy, listingContent, retryVars, condensedVars, sanitizeVars, normalizeVars, phaseVars, concurrentVars, triageVars, draftVars, setupVars>>

\* the same step, followed while the run has failures left to explore
PhysicalAttributesResponds(resp) ==
  /\ Admitted(ExtractPhysicalAttributes(resp))
  /\ PhysicalAttributesSettles(resp)

\* the phase 3 model call settles: analyzePricingStrategy, then lines 219-240
PricingSettles(resp) ==
  /\ pc = "pricing"
  /\ wait = "model"
  /\ clock' = clock + 1
  /\ LET result == AnalyzePricingStrategy(resp) IN
       IF ~result.ok
       THEN /\ AttemptFails("pricing", result.message)
            /\ pricingStrategy' = pricingStrategy
       ELSE /\ pricingStrategy' = result.value
            /\ Begin("content")
            /\ context' = Get(groundingResult, "productIdentification")
  /\ UNCHANGED <<images, groundingResult, physicalAttributes, listingContent, retryVars, condensedVars, sanitizeVars, normalizeVars, phaseVars, concurrentVars, triageVars, draftVars, setupVars>>

\* the same step, followed while the run has failures left to explore
PricingResponds(resp) ==
  /\ Admitted(AnalyzePricingStrategy(resp))
  /\ PricingSettles(resp)

\* the phase 4 model call settles: generateListingContent, then lines 242-281
ContentSettles(resp) ==
  /\ pc = "content"
  /\ wait = "model"
  /\ clock' = clock + 1
  /\ LET result == GenerateListingContent(resp,
                     Get(groundingResult, "productIdentification"), physicalAttributes)
     IN IF ~result.ok
        THEN /\ AttemptFails("content", result.message)
             /\ listingContent' = listingContent
        ELSE /\ listingContent' = result.value
             /\ Return(FinalPayload(groundingResult, physicalAttributes, pricingStrategy,
                                    result.value, clock'))
  /\ UNCHANGED <<images, groundingResult, physicalAttributes, pricingStrategy, retryVars, condensedVars, sanitizeVars, normalizeVars, phaseVars, concurrentVars, triageVars, draftVars, setupVars>>

\* the same step, followed while the run has failures left to explore
ContentResponds(resp) ==
  /\ Admitted(GenerateListingContent(resp, Get(groundingResult, "productIdentification"), physicalAttributes))
  /\ ContentSettles(resp)

\* the backoff timer of the current phase fires: delay *= 2, loop head,
\* attempt++, the phase function is invoked again
BackoffElapsed ==
  /\ wait = "timer"
  /\ clock' = clock + delay
  /\ delay' = NextDelay(delay)
  /\ IF LoopEnters("gemini2", attempt, MaxRetries)
     THEN /\ attempt' = attempt + 1
          /\ calls' = [calls EXCEPT ![pc] = @ + 1]
          /\ wait' = "model"
          /\ pc' = pc
          /\ outcome' = outcome
     ELSE /\ attempt' = attempt
          /\ calls' = calls
          /\ wait' = "none"
          /\ pc' = "thrown"
          /\ outcome' = Thrown(Err(TypeErrorMessage, 0))
  /\ UNCHANGED <<images, sleeps, errs, groundingResult, physicalAttributes,
                 pricingStrategy, listingContent, context, retryVars, condensedVars, sanitizeVars, normalizeVars, phaseVars, concurrentVars, triageVars, draftVars, setupVars>>

Next ==
  \/ \E imgs \in ImageInputs : AnalyzeMultipleImages(imgs)
  \/ \E resp \in GroundingResponses : GroundingResponds(resp)
  \/ \E resp \in PhysicalResponses : PhysicalAttributesResponds(resp)
  \/ \E resp \in PricingResponses : PricingResponds(resp)
  \/ \E resp \in ContentResponses : ContentResponds(resp)
  \/ BackoffElapsed

Spec == Init /\ [][Next]_vars

(***************************************************************************)
(* AIAgentic.generateCompleteListing (ai.agentic2.js): the two-call        *)
(* variant.  It runs without a retry executor.                             *)
(***************************************************************************)
\* generateVisualSnapshot: empty-text test, _cleanJson, _parseJson
GenerateVisualSnapshot(resp) ==
  IF resp.kind = "rejects" THEN Fail(resp.message)
  ELSE IF resp.text = "empty" THEN Fail("Empty response from generateVisualSnapshot")
  ELSE CleanAndParse(resp)

\* generateListingFromSnapshot: the post-processing of parsed.itemSpecifics,
\* with the refill of a map the cleanup has emptied
PostProcessSnapshotItemSpecifics(parsed, brand, modelName, grade) ==
  LET processed == PostProcessItemSpecifics(parsed, brand, modelName, grade) IN
    IF ~processed.ok THEN processed
    ELSE IF Truthy(Get(processed.value, "itemSpecifics"))
            /\ DOMAIN Get(processed.value, "itemSpecifics").o = {}
    THEN Ok(Put(processed.value, "itemSpecifics",
                JObj([Brand |-> brand, Model |-> modelName, Condition |-> grade])))
    ELSE processed

\* generateListingFromSnapshot: the blocks a listing lacks are taken from the
\* visual snapshot
FillFromSnapshot(parsed, snapshot, brand, modelName, category) ==
  LET productId == Or(Get(snapshot, "productIdentification"), JObj(EmptyObj))
      condition == Or(Get(snapshot, "condition"), JObj(EmptyObj))
      weight == Or(Get(snapshot, "weight"), JObj(EmptyObj))
      dimensions == Or(Get(snapshot, "dimensions"), JObj(EmptyObj))
      p1 == Put(parsed, "productIdentification",
                Or(Get(parsed, "productIdentification"),
                   JObj([ brand |-> brand, model |-> modelName, category |-> category,
                          upc |-> Or(Get(productId, "upc"), JNull),
                          mpn |-> Or(Get(productId, "mpn"), JNull) ])))
      p2 == Put(p1, "condition",
                Or(Get(parsed, "condition"),
                   JObj([flaws |-> Or(Get(condition, "flaws"), JArr(<<>>))])))
      p3 == Put(p2, "weight", Or(Get(parsed, "weight"), weight))
  IN Put(p3, "dimensions", Or(Get(parsed, "dimensions"), dimensions))

\* generateListingFromSnapshot
GenerateListingFromSnapshot(resp, snapshot) ==
  LET productId == Or(Get(snapshot, "productIdentification"), JObj(EmptyObj))
      condition == Or(Get(snapshot, "condition"), JObj(EmptyObj))
      brand == Or(Get(productId, "brand"), JStr("Unbranded"))
      modelName == Or(Get(productId, "model"), JStr("Unknown"))
      category == Or(Get(productId, "category"), JStr("Other"))
      grade == Or(Get(condition, "grade"), JStr("Used"))
  IN IF resp.kind = "rejects" THEN Fail(resp.message)
     ELSE IF resp.text = "empty"
     THEN Fail("Empty response from generateListingFromSnapshot")
     ELSE LET parsed == CleanAndParse(resp) IN
            IF ~parsed.ok THEN parsed
            ELSE LET processed ==
                       PostProcessSnapshotItemSpecifics(parsed.value, brand, modelName, grade)
                 IN IF ~processed.ok THEN processed
                    ELSE Ok(FillFromSnapshot(processed.value, snapshot,
                                             brand, modelName, category))

\* the identifier code of line 58 is declared nowhere in the module:
\* evaluating it throws
ReferenceErrorMessage == "code is not defined"

\* lines 45-61: the rejection branch builds its return value from
\* success, rejected, reason, details and a metadata that reads code
CondensedRejection(snapshot, id, processingTime) ==
  Fail(ReferenceErrorMessage)

\* lines 46-61: what the call does with the visual snapshot
SnapshotGate(snapshot) ==
  IF IsNullish(Get(snapshot, "compliance")) THEN "typeError"
  ELSE IF ~Truthy(Get(Get(snapshot, "compliance"), "isEbayCompliant")) THEN "rejection"
  ELSE "continue"

\* lines 84-92: { ...listingCore, metadata: { ...(listingCore.metadata || {}),
\* correlationId: cid, processingTime } }
CondensedFinalPayload(listingCore, id, processingTime) ==
  Put(listingCore, "metadata",
      Put(Put(Or(Get(listingCore, "metadata"), JObj(EmptyObj)), "correlationId", id),
          "processingTime", JNum(processingTime)))

CorrelationIds == {JNull, JStr("req-1")}

SnapshotProductIdentification ==
  JObj([ brand |-> JStr("LEGO"), model |-> JNull, category |-> JStr("Toys"),
         upc |-> JNull, mpn |-> JStr("10698"), confidence |-> JNum(1) ])

SnapshotObjects ==
  { JObj(EmptyObj),
    JObj([productIdentification |-> SnapshotProductIdentification]),
    JObj([ productIdentification |-> SnapshotProductIdentification,
           compliance |-> JObj([isEbayCompliant |-> JBool(FALSE), code |-> JStr("weapons")]) ]),
    JObj([compliance |-> JObj([isEbayCompliant |-> JBool(FALSE), code |-> JNull])]),
    JObj([compliance |-> JObj(EmptyObj)]),
    JObj([compliance |-> JObj([isEbayCompliant |-> JBool(TRUE), code |-> JNull])]),
    JObj([ productIdentification |-> SnapshotProductIdentification,
           compliance |-> JObj([isEbayCompliant |-> JBool(TRUE), code |-> JNull]) ]),
    JObj([ productIdentification |-> JObj([brand |-> JStr("string")]),
           condition |-> JObj([grade |-> JStr("")]),
           compliance |-> JObj([isEbayCompliant |-> JBool(TRUE)]) ]),
    JObj([ productIdentification |-> SnapshotProductIdentification,
           condition |-> JObj([ grade |-> JStr("Good"),
                                flaws |-> JArr(<<JStr("box wear")>>) ]),
           weight |-> JObj([value |-> JNum(40), unit |-> JStr("oz")]),
           dimensions |-> JObj([ length |-> JNum(15), width |-> JNum(10),
                                 height |-> JNum(7), unit |-> JStr("inches") ]),
           compliance |-> JObj([isEbayCompliant |-> JBool(TRUE), code |-> JNull]) ]) }

SnapshotResponses ==
  NonJsonResponses \cup {Resolves("json", v) : v \in SnapshotObjects}

ListingObjects ==
  { JObj(EmptyObj),
    JObj([ title |-> JNull, itemSpecifics |-> JObj([Color |-> JNull]) ]),
    JObj([ title |-> JStr("LEGO Classic Creative Brick Box 10698"),
           itemSpecifics |-> JObj([Brand |-> JStr("string"), Model |-> JStr("null")]) ]),
    JObj([ title |-> JStr("LEGO Classic Creative Brick Box 10698"),
           itemSpecifics |-> JStr("none") ]),
    JObj([ productIdentification |-> JObj([brand |-> JStr("LEGO")]),
           title |-> JStr("LEGO Classic Creative Brick Box 10698"),
           condition |-> JObj([grade |-> JStr("Very Good")]),
           itemSpecifics |-> JObj([Brand |-> JStr("LEGO"), Theme |-> JStr("Classic")]),
           pricing |-> JObj([suggestedPrice |-> JNum(30)]),
           metadata |-> JObj([ aiModel |-> JStr("gemini-2.5-flash"),
                               correlationId |-> JStr("from-model") ]) ]) }

ListingResponses ==
  NonJsonResponses \cup {Resolves("json", v) : v \in ListingObjects}

CondensedReturn(value) ==
  /\ cpc' = "returned"
  /\ cOutcome' = Returned(value)

CondensedThrow(msg) ==
  /\ cpc' = "thrown"
  /\ cOutcome' = Thrown(Err(msg, 0))

\* lines 33-43: cid is chosen and generateVisualSnapshot is awaited
GenerateCompleteListing(correlationId) ==
  /\ cpc = "idle"
  /\ cid' = Or(correlationId, JStr("ai-agentic-<timestamp>"))
  /\ cpc' = "snapshot"
  /\ cCalls' = [cCalls EXCEPT !.snapshot = @ + 1]
  /\ UNCHANGED <<visualSnapshot, cClock, cOutcome, retryVars, pipelineVars, sanitizeVars, normalizeVars, phaseVars, concurrentVars, triageVars, draftVars, setupVars>>

\* the snapshot model call settles: generateVisualSnapshot, then lines 45-80
SnapshotResponds(resp) ==
  /\ cpc = "snapshot"
  /\ cClock' = cClock + 1
  /\ LET result == GenerateVisualSnapshot(resp) IN
       IF ~result.ok
       THEN /\ CondensedThrow(result.message)
            /\ UNCHANGED <<visualSnapshot, cCalls, sanitizeVars, normalizeVars, phaseVars, concurrentVars, triageVars, draftVars, setupVars>>
       ELSE /\ visualSnapshot' = result.value
            /\ CASE SnapshotGate(result.value) = "typeError" ->
                      /\ CondensedThrow(TypeErrorMessage)
                      /\ cCalls' = cCalls
                 [] SnapshotGate(result.value) = "rejection" ->
                      LET built == CondensedRejection(result.value, cid, cClock') IN
                        /\ IF built.ok THEN CondensedReturn(built.value)
                           ELSE CondensedThrow(built.message)
                        /\ cCalls' = cCalls
                 [] OTHER ->
                      /\ cpc' = "listing"
                      /\ cCalls' = [cCalls EXCEPT !.listing = @ + 1]
                      /\ cOutcome' = cOutcome
  /\ UNCHANGED <<cid, retryVars, pipelineVars, sanitizeVars, normalizeVars, phaseVars, concurrentVars, triageVars, draftVars, setupVars>>

\* the listing model call settles: generateListingFromSnapshot, then lines 82-102
ListingResponds(resp) ==
  /\ cpc = "listing"
  /\ cClock' = cClock + 1
  /\ LET result == GenerateListingFromSnapshot(resp, visualSnapshot) IN
       IF ~result.ok
       THEN CondensedThrow(result.message)
       ELSE CondensedReturn(CondensedFinalPayload(result.value, cid, cClock'))
  /\ UNCHANGED <<cid, visualSnapshot, cCalls, retryVars, pipelineVars, sanitizeVars, normalizeVars, phaseVars, concurrentVars, triageVars, draftVars, setupVars>>

NextCondensed ==
  \/ \E correlationId \in CorrelationIds : GenerateCompleteListing(correlationId)
  \/ \E resp \in SnapshotResponses : SnapshotResponds(resp)
  \/ \E resp \in ListingResponses : ListingResponds(resp)

SpecCondensed == Init /\ [][NextCondensed]_vars

\* C2: whenever the visual snapshot has compliance.isEbayCompliant false, the
\* call returns, and does not throw, a Rejected outcome with success false,
\* rejected true and reason EBAY_POLICY_VIOLATION, and
\* generateListingFromSnapshot is never invoked.
C2_CondensedRejectionReturned ==
  ( /\ visualSnapshot # Undefined
    /\ Get(Get(visualSnapshot, "compliance"), "isEbayCompliant") = JBool(FALSE) ) =>
    /\ cpc = "returned"
    /\ cOutcome.kind = "returned"
    /\ Get(cOutcome.value, "success") = JBool(FALSE)
    /\ Get(cOutcome.value, "rejected") = JBool(TRUE)
    /\ Get(cOutcome.value, "reason") = JStr("EBAY_POLICY_VIOLATION")
    /\ cCalls.listing = 0

(***************************************************************************)
(* The single-call services: GeminiService.analyzeSingleImage of           *)
(* ai.agentic.js ("agentic") and analyzeSingleImageFromBase64 of           *)
(* gemini.service.js ("gemini").  One model call, run under the service's  *)
(* _retryWithBackoff.                                                      *)
(***************************************************************************)
SingleServices == {"agentic", "gemini"}

\* _parseFloat of ai.agentic.js: numbers as they are, strings through
\* parseFloat, anything else the default
AgenticParseFloat(value, defaultValue) ==
  IF value.t = "num" THEN value
  ELSE IF value.t = "str"
  THEN LET parsed == ParseFloatOfString(value.s) IN
         IF parsed = NaN THEN defaultValue ELSE parsed
  ELSE defaultValue

\* _mapToListingPayload of ai.agentic.js: the text of gemini2.service.js's,
\* with its own _parseFloat and with processingTime: null
AgenticMapToListingPayload(data, options) ==
  LET base == MapToListingPayload(data, JObj(EmptyObj))
      pricing == Or(Get(data, "pricing"), JObj(EmptyObj))
      shipping == Or(Get(data, "shipping"), JObj(EmptyObj))
      strategy == Get(pricing, "strategyRecommendation")
      basePricing == Get(base, "pricing")
      strategyOut ==
        Put(Put(Put(Get(basePricing, "strategyRecommendation"),
                    "auctionStartPrice",
                    AgenticParseFloat(OptGet(strategy, "auctionStartPrice"), JNull)),
                "bestOfferAutoAccept",
                AgenticParseFloat(OptGet(strategy, "bestOfferAutoAccept"), JNull)),
            "bestOfferAutoDecline",
            AgenticParseFloat(OptGet(strategy, "bestOfferAutoDecline"), JNull))
      pricingOut ==
        Put(Put(Put(basePricing, "suggestedPrice",
                    AgenticParseFloat(Get(pricing, "suggestedPrice"), JNum(0))),
                "priceRange",
                JObj([ min |-> AgenticParseFloat(OptGet(Get(pricing, "priceRange"), "min"),
                                                 JNum(0)),
                       max |-> AgenticParseFloat(OptGet(Get(pricing, "priceRange"), "max"),
                                                 JNum(0)) ])),
            "strategyRecommendation", strategyOut)
  IN Put(Put(base, "pricing", pricingOut),
         "shipping",
         Put(Get(base, "shipping"), "estimatedCost",
             AgenticParseFloat(Get(shipping, "estimatedCost"), JNum(0))))

\* { ...value } of an array or a string: its elements under their indices
Spread(v) ==
  CASE v.t = "obj" -> v
    [] v.t = "arr" ->
         JObj([k \in {ToString(i - 1) : i \in DOMAIN v.a} |->
                 v.a[CHOOSE i \in DOMAIN v.a : ToString(i - 1) = k]])
    [] v.t = "str" ->
         JObj([k \in {ToString(i - 1) : i \in 1..Len(v.s)} |->
                 JStr(CharAt(v.s, CHOOSE i \in 1..Len(v.s) : ToString(i - 1) = k))])
    [] OTHER -> JObj(EmptyObj)

\* DescriptionSections.fromJson(json).toJson() of gemini.service.js
DescriptionSectionsJson(json) ==
  IF ~Truthy(json)
  THEN JObj([ mainDescription |-> JNull, itemDetails |-> JObj(EmptyObj),
              condition |-> JNull, greatFor |-> JArr(<<>>) ])
  ELSE JObj([ mainDescription |->
                IF Get(json, "mainDescription") = Undefined THEN JNull
                ELSE Get(json, "mainDescription"),
              itemDetails |->
                IF Truthy(Get(json, "itemDetails")) THEN Spread(Get(json, "itemDetails"))
                ELSE JObj(EmptyObj),
              condition |->
                IF Get(json, "condition") = Undefined THEN JNull
                ELSE Get(json, "condition"),
              greatFor |->
                IF Get(json, "greatFor").t = "arr" THEN Get(json, "greatFor")
                ELSE JArr(<<>>) ])

\* _mapToListingPayload of gemini.service.js
GeminiMapToListingPayload(data) ==
  LET descSections == DescriptionSectionsJson(Get(data, "descriptionSections"))
      categories == Or(Get(data, "categories"), JObj(EmptyObj))
      pricing == Or(Get(data, "pricing"), JObj(EmptyObj))
      shipping == Or(Get(data, "shipping"), JObj(EmptyObj))
      policies == Or(Get(data, "policies"), JObj(EmptyObj))
      greatFor == Get(descSections, "greatFor")
  IN JObj([
    title |-> Or(Get(data, "title"), JStr("Unknown Item")),
    descriptionSections |-> descSections,
    category |-> Or(Or(Get(categories, "primary"), Get(data, "category")), JStr("Other")),
    primaryCategory |-> Or(Get(categories, "primary"), JStr("Other")),
    secondaryCategory |-> Or(Get(categories, "secondary"), JNull),
    pricing |-> JObj([
      suggestedPrice |->
        IF Get(pricing, "suggestedPrice").t = "num" THEN Get(pricing, "suggestedPrice")
        ELSE LET parsed == ParseFloatBuiltin(Get(pricing, "suggestedPrice")) IN
               IF parsed = NaN THEN JNum(0) ELSE Or(parsed, JNum(0)),
      currency |-> Or(Get(pricing, "currency"), JStr("USD")),
      compRange |-> Or(Get(pricing, "compRange"), JNull),
      strategy |-> Or(Get(pricing, "strategy"), JNull) ]),
    itemSpecifics |-> Or(Get(data, "itemSpecifics"), JObj(EmptyObj)),
    shipping |-> JObj([
      estimatedWeight |-> Or(Get(shipping, "estimatedWeight"), JNull),
      handlingTime |-> Or(Get(shipping, "handlingTime"), JNull),
      method |-> Or(Get(shipping, "method"), JNull) ]),
    policies |-> JObj([
      returns |-> Or(Get(policies, "returns"), JNull),
      returnShipping |->
        Or(Or(Get(policies, "returnShipping"), Get(policies, "returnShippingPaidBy")),
           JNull) ]),
    flaws |-> IF Get(data, "flaws").t = "arr" THEN Get(data, "flaws") ELSE JArr(<<>>),
    seoKeywords |->
      IF greatFor.t = "arr" /\ Len(greatFor.a) > 0 THEN greatFor
      ELSE IF Get(data, "seoKeywords").t = "arr" THEN Get(data, "seoKeywords")
      ELSE JArr(<<>>) ])

EmptyResponseMessage(svc) ==
  IF svc = "agentic" THEN "Empty response from Gemini API" ELSE "Empty response from Gemini"

\* the message of the error thrown when the cleaned text does not parse
ParseFailureMessage(svc) ==
  IF svc = "agentic" THEN "AI response could not be parsed as valid JSON"
  ELSE "AI response could not be parsed as JSON"

\* _cleanJsonResponse followed by _parseJsonSafely (ai.agentic.js) or by
\* JSON.parse (gemini.service.js).  _cleanJsonResponse never throws; text of
\* class "trailingComma" is JSON but for a comma before a closing bracket,
\* which the repair of _parseJsonSafely removes.
CleanResponseAndParse(svc, resp) ==
  CASE resp.text = "json" -> Ok(resp.value)
    [] resp.text = "trailingComma" /\ svc = "agentic" -> Ok(resp.value)
    [] OTHER -> Fail(ParseFailureMessage(svc))

\* _analyzeImageWithContext (ai.agentic.js), _analyzeSingleImage (gemini.service.js)
AnalyzeImageWithContext(svc, resp) ==
  IF resp.kind = "rejects" THEN Fail(resp.message)
  ELSE IF resp.text = "empty" THEN Fail(EmptyResponseMessage(svc))
  ELSE LET parsed == CleanResponseAndParse(svc, resp) IN
         IF ~parsed.ok THEN parsed
         ELSE IF IsNullish(parsed.value) THEN Fail("Cannot read properties of null")
         ELSE IF svc = "agentic"
         THEN Ok(AgenticMapToListingPayload(parsed.value, JObj(EmptyObj)))
         ELSE Ok(GeminiMapToListingPayload(parsed.value))

\* _validateImageInput of ai.agentic.js
ValidateImageInput(img) ==
  LET mimeType == IF img.mimeType = Undefined THEN JStr("image/jpeg") ELSE img.mimeType IN
    IF img.base64 = "" THEN Fail("Invalid base64 string provided")
    ELSE IF ~(mimeType.t = "str" /\ mimeType.s \in AllowedMimeTypes)
    THEN Fail("Unsupported MIME type")
    ELSE IF img.sizeMB > MaxImageSizeMB THEN Fail("Image size exceeds maximum")
    ELSE Ok(Undefined)

SingleImages == {Jpeg, PngWithoutMimeType, Gif, Oversized, WithoutData}

SingleProviderErrors ==
  { "Request failed with status code 503",
    "Request failed with status code 429",
    "socket hang up",
    "400 bad request" }

SingleObjects ==
  { JNull,
    JNum(7),
    JObj(EmptyObj),
    JObj([ title |-> JStr("Hasbro My Little Pony G3 Scootaloo"),
           descriptionSections |->
             JObj([ mainDescription |-> JStr("Pony figure."),
                    itemDetails |-> JObj([Brand |-> JStr("Hasbro")]),
                    greatFor |-> JArr(<<JStr("Collectors")>>) ]),
           productIdentification |-> JObj([brand |-> JStr("Hasbro")]),
           pricing |-> JObj([ suggestedPrice |-> JStr("14"),
                              priceRange |-> JObj([min |-> JArr(<<JNum(7)>>)]) ]),
           categories |-> JObj([primary |-> JStr("Toys & Hobbies")]),
           flaws |-> JArr(<<JStr("Minor scratches")>>) ]) }

SingleResponses ==
  {Rejects(m) : m \in SingleProviderErrors}
    \cup {Resolves(c, Undefined) : c \in {"empty", "prose", "garbled"}}
    \cup {Resolves("trailingComma", JObj([title |-> JStr("Pony")]))}
    \cup {Resolves("json", v) : v \in SingleObjects}

SingleInitialDelayMs(svc) ==
  IF svc = "agentic" THEN AgenticInitialDelayMs ELSE GeminiInitialDelayMs

InitSingle ==
  /\ rSvc \in SingleServices
  /\ rMax = MaxRetries
  /\ rInit = SingleInitialDelayMs(rSvc)
  /\ rpc = "idle"
  /\ rAttempt = 0
  /\ rDelay = 0
  /\ rCalls = 0
  /\ rSleeps = <<>>
  /\ rErrs = <<>>
  /\ rClass = <<>>
  /\ rOutcome = NoOutcome
  /\ PipelineParked
  /\ CondensedParked
  /\ SanitizeParked
  /\ NormalizeParked
  /\ PhaseParked
  /\ ConcurrentParked
  /\ TriageParked
  /\ DraftParked
  /\ SetupParked

\* analyzeSingleImage: _validateImageInput, then _retryWithBackoff;
\* analyzeSingleImageFromBase64: the API key test, then _retryWithBackoff
AnalyzeSingleImage(img, configured) ==
  /\ rpc = "idle"
  /\ LET checked == IF rSvc = "agentic" THEN ValidateImageInput(img)
                    ELSE IF configured THEN Ok(Undefined)
                    ELSE Fail("Gemini API key not configured on server")
     IN IF checked.ok THEN RetryInvoke
        ELSE /\ rpc' = "thrown"
             /\ rOutcome' = Thrown(Err(checked.message, 0))
             /\ UNCHANGED <<rSvc, rMax, rInit, rAttempt, rDelay, rCalls, rSleeps, rErrs,
                            rClass, pipelineVars, condensedVars, sanitizeVars, normalizeVars, phaseVars, concurrentVars, triageVars, draftVars, setupVars>>

\* the model call settles: the operation resolves or rejects
SingleResponds(resp) ==
  /\ rpc = "awaiting"
  /\ LET result == AnalyzeImageWithContext(rSvc, resp) IN
       IF result.ok
       THEN /\ rpc' = "returned"
            /\ rOutcome' = Returned(result.value)
            /\ UNCHANGED <<rSvc, rMax, rInit, rAttempt, rDelay, rCalls, rSleeps, rErrs,
                           rClass, pipelineVars, condensedVars, sanitizeVars, normalizeVars, phaseVars, concurrentVars, triageVars, draftVars, setupVars>>
       ELSE RetryOpFails(result.message)

NextSingle ==
  \/ \E img \in SingleImages, configured \in BOOLEAN : AnalyzeSingleImage(img, configured)
  \/ \E resp \in SingleResponses : SingleResponds(resp)
  \/ RetryTimerFires

SpecSingle == InitSingle /\ [][NextSingle]_vars

IsSingleParseFailure(err) == err.message = ParseFailureMessage(rSvc)

\* C12: in the single-call services a model response that cannot be parsed as
\* JSON on one attempt is handled by the retry executor: it is classified
\* retryable and the operation is attempted again while attempts remain, and
\* the caller sees the parse error only after all attempts are exhausted.
C12_SingleCallParseFailureRetried ==
  /\ \A i \in DOMAIN rErrs :
       (IsSingleParseFailure(rErrs[i]) /\ i < rMax) =>
         /\ rClass[i]
         /\ rCalls > i \/ rpc = "sleeping"
  /\ (rOutcome.kind = "thrown" /\ IsSingleParseFailure(rOutcome.error)) => rCalls = rMax

(***************************************************************************)
(* The response sanitizer applied to raw model texts                       *)
(***************************************************************************)
\* complete JSON object texts a model may answer with
ObjectTexts ==
  { "{}",
    "{\"a\": {\"b\": [1, 2]}}",
    "{\"a\": [1, {\"b\": 2}]}",
    "{\"a\": [[1], [2, 3]], \"c\": true}",
    "{\"a\": \"x}y\", \"c\": [true, null]}",
    "{\"a\": \"q\\\"z[\", \"c\": -12}",
    "{\"a\": \"" \o Fence \o "\"}",
    " {\n  \"a\": 1,\n  \"a\": 2\n}\n" }

\* every proper non-empty prefix of a text: the text cut off mid-structure
Truncations(t) == {SubSeq(t, 1, k) : k \in 1..(Len(t) - 1)}

\* what may precede and follow the object in the answer
Preambles == {"", Fence \o "json\n", "Here is the listing: "}

Postambles == {"", "\n" \o Fence, " Hope this helps."}

\* texts without any opening brace
BracelessTexts ==
  { "", " ", "\n\t ", "I cannot help with that.", Fence, Fence \o "json\n" \o Fence,
    "[1, 2]", "null", "}", "\"a\": 1}" }

\* texts that are no prefix of any JSON text
GarbledTexts ==
  { "}{", "{{", "{oops", "{1", "{]", "{\"a\": 1]", Fence \o "{" \o Fence,
    "{\"a\": 1} and {\"b\": 2}", "{\"a\": 1}}", "x{\"a\": [}",
    "Sure: {\"a\": [1, {\"b\": 2} (cut off)", "{] [1", "{\\\"a[" }

SanitizerTexts ==
  {pre \o t \o post : pre \in Preambles, t \in ObjectTexts, post \in Postambles}
    \cup {pre \o t : pre \in Preambles, t \in UNION {Truncations(o) : o \in ObjectTexts}}
    \cup BracelessTexts
    \cup GarbledTexts

\* the fences a model wraps its answer in: opening fence with its language
\* tag, closing fence
Wrappers ==
  { <<Fence \o "json\n", "\n" \o Fence>>,
    <<Fence \o "\n", "\n" \o Fence>>,
    <<Fence \o "JSON ", " " \o Fence>>,
    <<Fence \o "js\n", Fence>> }

InitSanitize ==
  /\ RetryParked
  /\ PipelineParked
  /\ CondensedParked
  /\ NormalizeParked
  /\ PhaseParked
  /\ ConcurrentParked
  /\ TriageParked
  /\ DraftParked
  /\ SetupParked
  /\ rawText \in SanitizerTexts
  /\ spc = "received"
  /\ cleanedText = NoOutcome
  /\ recleanedText = NoOutcome
  /\ parsedResult = NoOutcome
  /\ fencedResult = NoOutcome

\* const cleaned = this._cleanJson(text)
CleanJsonCall ==
  /\ spc = "received"
  /\ cleanedText' = CleanJson(rawText)
  /\ spc' = IF CleanJson(rawText).ok THEN "cleaned" ELSE "thrown"
  /\ UNCHANGED <<rawText, recleanedText, parsedResult, fencedResult,
                 retryVars, pipelineVars, condensedVars, normalizeVars, phaseVars, concurrentVars, triageVars, draftVars, setupVars>>

\* this._cleanJson(cleaned), the sanitizer on its own output
CleanJsonAgain ==
  /\ spc = "cleaned"
  /\ recleanedText' = CleanJson(cleanedText.value)
  /\ spc' = "recleaned"
  /\ UNCHANGED <<rawText, cleanedText, parsedResult, fencedResult,
                 retryVars, pipelineVars, condensedVars, normalizeVars, phaseVars, concurrentVars, triageVars, draftVars, setupVars>>

\* const parsed = this._parseJson(cleaned, correlationId)
ParseJsonCall ==
  /\ spc = "cleaned"
  /\ parsedResult' = ParseJson(cleanedText.value)
  /\ spc' = IF ParseJson(cleanedText.value).ok THEN "parsed" ELSE "thrown"
  /\ UNCHANGED <<rawText, cleanedText, recleanedText, fencedResult,
                 retryVars, pipelineVars, condensedVars, normalizeVars, phaseVars, concurrentVars, triageVars, draftVars, setupVars>>

\* the two steps on the same text between an opening and a closing fence
CleanFencedCall(wrapper) ==
  /\ spc = "parsed"
  /\ fencedResult' = CleanThenParse(wrapper[1] \o rawText \o wrapper[2])
  /\ spc' = "fenced"
  /\ UNCHANGED <<rawText, cleanedText, recleanedText, parsedResult,
                 retryVars, pipelineVars, condensedVars, normalizeVars, phaseVars, concurrentVars, triageVars, draftVars, setupVars>>

NextSanitize ==
  \/ CleanJsonCall
  \/ CleanJsonAgain
  \/ ParseJsonCall
  \/ \E wrapper \in Wrappers : CleanFencedCall(wrapper)

SpecSanitize == InitSanitize /\ [][NextSanitize]_vars

(***************************************************************************)
(* The content post-processing and _mapToListingPayload applied to phase   *)
(* outputs                                                                 *)
(***************************************************************************)
\* productIdentification blocks of a grounding result or visual snapshot
ProductContexts ==
  { JObj([brand |-> JStr("Nike"), model |-> JStr("Air Max 90"), category |-> JStr("Shoes")]),
    JObj([brand |-> JStr("string"), model |-> JStr("string")]),
    JObj([brand |-> JStr("null"), model |-> JNull]),
    JObj(EmptyObj) }

\* results of the physical-attributes phase
PhysicalOutputs ==
  { JObj([ condition |-> JObj([grade |-> JStr("Good"), flaws |-> JArr(<<JStr("scuffed toe")>>)]),
           weight |-> JObj([estimatedLbs |-> JNum(2)]) ]),
    JObj([condition |-> JObj([grade |-> JStr("string")])]),
    JObj(EmptyObj) }

\* objects the content model call answers with
ContentOutputs ==
  { JObj(EmptyObj),
    JObj([title |-> JStr("Nike Air Max 90 Good")]),
    JObj([title |-> JStr("Nike Air Max 90 Good"), itemSpecifics |-> JNull]),
    JObj([ title |-> JStr("Nike Air Max 90 Good"),
           legalDisclaimers |-> JObj([pricing |-> JStr("Prices are estimates.")]) ]),
    JObj([title |-> JStr("Nike Air Max 90 Good"), itemSpecifics |-> JObj(EmptyObj)]),
    JObj([ title |-> JStr("Nike Air Max 90 Good"),
           itemSpecifics |-> JObj([Brand |-> JStr("string"), Model |-> JNull]) ]),
    JObj([ title |-> JStr("Nike Air Max 90 Good"),
           itemSpecifics |-> JObj([ Brand |-> JStr("null"), Model |-> JStr("Air Max 90"),
                                    Condition |-> JStr("Good"), Color |-> JStr("Red") ]) ]),
    JObj([ title |-> JStr("Nike Air Max 90 Good"),
           itemSpecifics |-> JObj([ Brand |-> JStr("Nike"), Model |-> JStr("Air Max 90"),
                                    Condition |-> JStr("Good"), Color |-> JStr("Red"),
                                    Material |-> JStr(""), Size |-> JNull,
                                    Style |-> JStr("string"), Type |-> JStr("null") ]) ]) }

\* a merged phase output that supplies every block
FullOutput ==
  JObj([ productIdentification |->
           JObj([ brand |-> JStr("Nike"), model |-> JStr("Air Max 90"),
                  category |-> JStr("Shoes"), upc |-> JStr("0123456789012"),
                  mpn |-> JStr("CN8490") ]),
         title |-> JStr("Nike Air Max 90 Good"),
         subtitle |-> JStr("Classic runner"),
         description |-> JObj([plainText |-> JStr("Nike Air Max 90 in good condition.")]),
         condition |-> JObj([grade |-> JStr("Good"), numericScore |-> JNum(7)]),
         weight |-> JObj([estimatedLbs |-> JNum(2), confidenceLevel |-> JStr("medium")]),
         dimensions |-> JObj([length |-> JNum(12), unit |-> JStr("inches")]),
         pricing |-> JObj([ suggestedPrice |-> JStr("59.99"), currency |-> JStr("EUR"),
                            priceRange |-> JObj([min |-> JNum(40), max |-> JNum(80)]) ]),
         shipping |-> JObj([service |-> JStr("UPS Ground"), handlingTime |-> JStr("2 days")]),
         itemSpecifics |-> JObj([Brand |-> JStr("Nike")]),
         seoKeywords |-> JArr(<<JStr("nike")>>),
         seoOptimization |-> JObj([secondaryKeywords |-> JArr(<<JStr("runner")>>)]),
         listingRecommendations |-> JObj([returnPeriod |-> JStr("14 days")]),
         qualityChecks |-> JObj([imageQuality |-> JStr("good")]),
         complianceFlags |-> JObj([brandAuthenticity |-> JStr("likely authentic")]),
         legalDisclaimers |-> JObj([pricing |-> JStr("Prices are estimates.")]) ])

\* the values a model echoes back in place of a real one
UpstreamSentinels == {JNull, JStr("null"), JStr("string"), JStr("")}

\* block and field of the upstream values that are replaced in turn; the
\* block "" stands for the output itself
SentinelTargets ==
  { <<"productIdentification", "brand">>, <<"productIdentification", "model">>,
    <<"condition", "grade">>, <<"pricing", "currency">>, <<"pricing", "suggestedPrice">>,
    <<"shipping", "handlingTime">>, <<"weight", "confidenceLevel">>,
    <<"legalDisclaimers", "pricing">>, <<"", "title">> }

WithValue(data, block, field, v) ==
  IF block = "" THEN Put(data, field, v)
  ELSE Put(data, block, Put(Get(data, block), field, v))

WithoutValue(data, block, field) ==
  IF block = "" THEN Delete(data, field)
  ELSE Put(data, block, Delete(Get(data, block), field))

\* upstream values that are legitimate and falsy: a score of zero, a flag
\* that is false
FalsyValues ==
  { <<"pricing", "confidenceScore", JNum(0)>>,
    <<"condition", "numericScore", JNum(0)>>,
    <<"qualityChecks", "informationCompleteness", JNum(0)>>,
    <<"weight", "estimatedLbs", JNum(0)>>,
    <<"weight", "requiresManualVerification", JBool(FALSE)>>,
    <<"shipping", "fragile", JBool(FALSE)>>,
    <<"listingRecommendations", "bestOfferEnabled", JBool(FALSE)>>,
    <<"listingRecommendations", "returnsAccepted", JBool(FALSE)>>,
    <<"complianceFlags", "prohibitedItems", JBool(FALSE)>> }

\* partial merged phase outputs
PartialOutputs ==
  {JObj(EmptyObj), FullOutput}
    \cup {WithValue(FullOutput, falsy[1], falsy[2], falsy[3]) : falsy \in FalsyValues}
    \cup {Delete(FullOutput, block) : block \in DOMAIN FullOutput.o}
    \cup {JObj([k \in {block} |-> FullOutput.o[k]]) : block \in DOMAIN FullOutput.o}
    \cup {WithValue(FullOutput, target[1], target[2], v) :
            target \in SentinelTargets, v \in UpstreamSentinels}
    \cup {WithoutValue(FullOutput, target[1], target[2]) : target \in SentinelTargets}

\* Date.now() - startTime of the run, in ms
ProcessingTime == 4200

InitNormalize ==
  /\ RetryParked
  /\ PipelineParked
  /\ CondensedParked
  /\ SanitizeParked
  /\ PhaseParked
  /\ ConcurrentParked
  /\ TriageParked
  /\ DraftParked
  /\ SetupParked
  /\ nListing = NoOutcome
  /\ nPayload = Undefined
  /\ \/ /\ npc = "context"
        /\ nVariant \in {"five-phase", "condensed"}
        /\ nProductContext \in ProductContexts
        /\ nPhysical \in PhysicalOutputs
        /\ nContentOutput \in ContentOutputs
        /\ nData = Undefined
     \/ /\ npc = "partial"
        /\ nVariant \in {"gemini2", "agentic"}
        /\ nProductContext = Undefined
        /\ nPhysical = Undefined
        /\ nContentOutput = Undefined
        /\ nData \in PartialOutputs

\* the content model call answers nContentOutput: generateListingContent
\* (ai.agentic.js) or generateListingFromSnapshot (ai.agentic2.js)
ListingContentGenerated ==
  /\ npc = "context"
  /\ LET result ==
           IF nVariant = "five-phase"
           THEN GenerateListingContent(Resolves("json", nContentOutput),
                                       nProductContext, nPhysical)
           ELSE GenerateListingFromSnapshot(
                  Resolves("json", nContentOutput),
                  JObj([ productIdentification |-> nProductContext,
                         condition |-> Get(nPhysical, "condition"),
                         weight |-> Get(nPhysical, "weight") ]))
     IN /\ nListing' = result
        /\ npc' = IF result.ok THEN "content" ELSE "thrown"
  /\ UNCHANGED <<nVariant, nProductContext, nPhysical, nContentOutput, nData, nPayload,
                 retryVars, pipelineVars, condensedVars, sanitizeVars, phaseVars, concurrentVars, triageVars, draftVars, setupVars>>

\* the listing is assembled: lines 253-281 of gemini2.service.js, lines 84-92
\* of ai.agentic2.js
ListingAssembled ==
  /\ npc = "content"
  /\ IF nVariant = "five-phase"
     THEN /\ nData' = AssembledData(JObj([productIdentification |-> nProductContext]),
                                    nPhysical, JObj(EmptyObj), nListing.value)
          /\ nPayload' = FinalPayload(JObj([productIdentification |-> nProductContext]),
                                      nPhysical, JObj(EmptyObj), nListing.value,
                                      ProcessingTime)
     ELSE /\ nData' = nListing.value
          /\ nPayload' = CondensedFinalPayload(nListing.value, JStr("req-1"), ProcessingTime)
  /\ npc' = "mapped"
  /\ UNCHANGED <<nVariant, nProductContext, nPhysical, nContentOutput, nListing,
                 retryVars, pipelineVars, condensedVars, sanitizeVars, phaseVars, concurrentVars, triageVars, draftVars, setupVars>>

\* this._mapToListingPayload(data) of gemini2.service.js or ai.agentic.js
MapPartialOutput ==
  /\ npc = "partial"
  /\ nPayload' = IF nVariant = "gemini2"
                 THEN MapToListingPayload(nData, JObj(EmptyObj))
                 ELSE AgenticMapToListingPayload(nData, JObj(EmptyObj))
  /\ npc' = "mapped"
  /\ UNCHANGED <<nVariant, nProductContext, nPhysical, nContentOutput, nListing, nData,
                 retryVars, pipelineVars, condensedVars, sanitizeVars, phaseVars, concurrentVars, triageVars, draftVars, setupVars>>

NextNormalize ==
  \/ ListingContentGenerated
  \/ ListingAssembled
  \/ MapPartialOutput

SpecNormalize == InitNormalize /\ [][NextNormalize]_vars

(***************************************************************************)
(* One call of a phase function of AIAgentic (ai.agentic.js, ai.agentic2.js)*)
(* with the answer of the model provider                                   *)
(***************************************************************************)
PhaseFunctions ==
  { "visualGrounding", "extractPhysicalAttributes", "analyzePricingStrategy",
    "generateListingContent", "generateVisualSnapshot", "generateListingFromSnapshot" }

\* what the provider may answer to the model call of a phase function
ResponsesOf(name) ==
  CASE name = "visualGrounding" -> GroundingResponses
    [] name = "extractPhysicalAttributes" -> PhysicalResponses
    [] name = "analyzePricingStrategy" -> PricingResponses
    [] name = "generateListingContent" -> ContentResponses
    [] name = "generateVisualSnapshot" -> SnapshotResponses
    [] name = "generateListingFromSnapshot" -> ListingResponses

\* the context the earlier phases hand to the later ones
PhaseContext ==
  JObj([ productIdentification |->
           JObj([brand |-> JStr("Nike"), model |-> JStr("Air Max 90"),
                 category |-> JStr("Shoes")]),
         condition |-> JObj([grade |-> JStr("Good")]) ])

\* the phase function applied to the answer of its model call
PhaseFunction(name, resp) ==
  CASE name = "visualGrounding" -> VisualGrounding(resp)
    [] name = "extractPhysicalAttributes" -> ExtractPhysicalAttributes(resp)
    [] name = "analyzePricingStrategy" -> AnalyzePricingStrategy(resp)
    [] name = "generateListingContent" ->
         GenerateListingContent(resp, Get(PhaseContext, "productIdentification"), PhaseContext)
    [] name = "generateVisualSnapshot" -> GenerateVisualSnapshot(resp)
    [] name = "generateListingFromSnapshot" -> GenerateListingFromSnapshot(resp, PhaseContext)

InitPhase ==
  /\ RetryParked
  /\ PipelineParked
  /\ CondensedParked
  /\ SanitizeParked
  /\ NormalizeParked
  /\ ConcurrentParked
  /\ TriageParked
  /\ DraftParked
  /\ SetupParked
  /\ fpc = "calling"
  /\ fName \in PhaseFunctions
  /\ fResponse \in ResponsesOf(fName)
  /\ fResult = NoOutcome

\* the model call settles and the phase function runs to its end
PhaseCallSettles ==
  /\ fpc = "calling"
  /\ fResult' = PhaseFunction(fName, fResponse)
  /\ fpc' = "settled"
  /\ UNCHANGED <<fName, fResponse, retryVars, pipelineVars, condensedVars, sanitizeVars,
                 normalizeVars, concurrentVars, triageVars, draftVars, setupVars>>

NextPhase == PhaseCallSettles

SpecPhase == InitPhase /\ [][NextPhase]_vars

(***************************************************************************)
(* Runs of GeminiService.analyzeMultipleImages (gemini2.service.js)        *)
(* interleaved at their awaits on the one instance the module exports.     *)
(* A step of a run is a function of the run's local variables and of the   *)
(* fields of the instance; it yields both anew.                            *)
(***************************************************************************)
Step(run, svc) == [run |-> run, svc |-> svc]

\* get aiAgentic(): the first read loads the module, lines 33-38
WithAgentic(svc) == [svc EXCEPT !.aiAgentic = "loaded"]

Ended(run, svc, result) ==
  Step([run EXCEPT !.pc = IF result.kind = "returned" THEN "returned" ELSE "thrown",
                   !.wait = "none", !.outcome = result], svc)

\* _retryWithBackoff up to the first call of the phase function: let attempt,
\* let delay = this.initialDelayMs, loop head, attempt++, fn()
Enter(run, svc, phase) ==
  IF 0 < svc.maxRetries
  THEN Step([run EXCEPT !.pc = phase, !.wait = "model", !.attempt = 1,
                        !.delay = svc.initialDelayMs],
            WithAgentic(svc))
  ELSE Ended(run, svc, Thrown(Err(TypeErrorMessage, 0)))

\* a catch block that keeps the doubled delay on the instance
CaughtSharedDelay(run, svc, msg) ==
  LET err == Err(msg, run.attempt) IN
    IF ~IsRetryableError(err) \/ run.attempt >= svc.maxRetries
    THEN Ended(run, svc, Thrown(err))
    ELSE Step([run EXCEPT !.wait = "timer"],
              [svc EXCEPT !.initialDelayMs = NextDelay(@)])

\* the catch block of _retryWithBackoff, up to the await of the timer
Caught(run, svc, msg) ==
  LET err == Err(msg, run.attempt) IN
    IF ~IsRetryableError(err) \/ run.attempt >= svc.maxRetries
    THEN Ended(run, svc, Thrown(err))
    ELSE Step([run EXCEPT !.wait = "timer"], svc)

\* the timer fires: delay *= 2, loop head, attempt++, fn()
Resumed(run, svc) ==
  IF run.attempt < svc.maxRetries
  THEN Step([run EXCEPT !.delay = NextDelay(@), !.attempt = @ + 1, !.wait = "model"],
            WithAgentic(svc))
  ELSE Ended(run, svc, Thrown(Err(TypeErrorMessage, 0)))

\* lines 45-131: validation of the images, then phase 1 is started
Started(svc, imgs) ==
  LET run == [IdleRun EXCEPT !.images = imgs]
      checked == ValidateImages(imgs)
  IN IF checked.ok THEN Enter(run, svc, "grounding")
     ELSE Ended(run, svc, Thrown(Err(checked.message, 0)))

\* the model call of the phase in progress settles: the phase function runs
\* to its end and the run goes on to its next await or to its end
Settled(run, svc, resp) ==
  CASE run.pc = "grounding" ->
         LET result == VisualGrounding(resp) IN
           IF ~result.ok THEN Caught(run, svc, result.message)
           ELSE LET next == [run EXCEPT !.groundingResult = result.value] IN
                  CASE GroundingGate(result.value) = "rejected" ->
                         Ended(next, svc, Returned(RejectedOutcome(result.value, ProcessingTime)))
                    [] GroundingGate(result.value) = "typeError" ->
                         Ended(next, svc, Thrown(Err(TypeErrorMessage, 0)))
                    [] GroundingGate(result.value) = "review" ->
                         Ended(next, svc, Returned(ReviewOutcome(result.value, ProcessingTime)))
                    [] OTHER -> Enter(next, svc, "physical")
    [] run.pc = "physical" ->
         LET result == ExtractPhysicalAttributes(resp) IN
           IF ~result.ok THEN Caught(run, svc, result.message)
           ELSE Enter([run EXCEPT !.physicalAttributes = result.value], svc, "pricing")
    [] run.pc = "pricing" ->
         LET result == AnalyzePricingStrategy(resp) IN
           IF ~result.ok THEN Caught(run, svc, result.message)
           ELSE Enter([run EXCEPT !.pricingStrategy = result.value], svc, "content")
    [] run.pc = "content" ->
         LET result == GenerateListingContent(
                         resp, Get(run.groundingResult, "productIdentification"),
                         run.physicalAttributes)
         IN IF ~result.ok THEN Caught(run, svc, result.message)
            ELSE Ended([run EXCEPT !.listingContent = result.value], svc,
                       Returned(FinalPayload(run.groundingResult, run.physicalAttributes,
                                             run.pricingStrategy, result.value,
                                             ProcessingTime)))

\* what a run is given: its argument, the answers of the provider, its timers
StartEvent(imgs) == [type |-> "start", images |-> imgs]

AnswerEvent(resp) == [type |-> "answer", response |-> resp]

TimerEvent == [type |-> "timer"]

\* the image lists and the answers the interleaved runs are given
ConcurrentImages == {ArrayOf(<<>>), ArrayOf(<<Jpeg>>)}

TransientRejection == Rejects("Request failed with status code 503")

ConcurrentAnswers(phase) ==
  {TransientRejection} \cup
  CASE phase = "grounding" ->
         { Resolves("json", GroundingOutput(TRUE, FALSE, "HIGH", "ALLOWED")),
           Resolves("json", GroundingOutput(FALSE, FALSE, "HIGH", "PROHIBITED")) }
    [] phase = "physical" ->
         {Resolves("json", JObj([condition |-> JObj([grade |-> JStr("Good")])]))}
    [] phase = "pricing" ->
         {Resolves("json", JObj([pricing |-> JObj([suggestedPrice |-> JNum(30)])]))}
    [] phase = "content" ->
         {Resolves("json", JObj([title |-> JStr("Nike Air Max 90 Good")]))}

\* the failed model calls of a run
RunFailures(events) ==
  Cardinality({i \in DOMAIN events :
                 events[i].type = "answer" /\ events[i].response.kind = "rejects"})

\* a run is followed through at most MaxRunFailures failing model calls
MaxRunFailures == 1

InitConcurrent ==
  /\ RetryParked
  /\ PipelineParked
  /\ CondensedParked
  /\ SanitizeParked
  /\ NormalizeParked
  /\ PhaseParked
  /\ ConcurrentParked
  /\ TriageParked
  /\ DraftParked
  /\ SetupParked

Took(r, step, event) ==
  /\ locals' = [locals EXCEPT ![r] = step.run]
  /\ service' = step.svc
  /\ inputs' = [inputs EXCEPT ![r] = Append(@, event)]
  /\ UNCHANGED <<retryVars, pipelineVars, condensedVars, sanitizeVars, normalizeVars,
                 phaseVars, triageVars, draftVars, setupVars>>

\* a request calls analyzeMultipleImages
RunStarts(r, imgs) ==
  /\ locals[r].pc = "idle"
  /\ Took(r, Started(service, imgs), StartEvent(imgs))

\* the model call a run awaits settles
RunAnswered(r, resp) ==
  /\ locals[r].wait = "model"
  /\ resp \in ConcurrentAnswers(locals[r].pc)
  /\ resp.kind = "rejects" => RunFailures(inputs[r]) < MaxRunFailures
  /\ Took(r, Settled(locals[r], service, resp), AnswerEvent(resp))

\* the backoff timer a run awaits fires
RunTimerFires(r) ==
  /\ locals[r].wait = "timer"
  /\ Took(r, Resumed(locals[r], service), TimerEvent)

NextConcurrent ==
  \/ \E r \in Runs, imgs \in ConcurrentImages : RunStarts(r, imgs)
  \/ \E r \in Runs, resp \in UNION {ConcurrentAnswers(p) : p \in Phases} : RunAnswered(r, resp)
  \/ \E r \in Runs : RunTimerFires(r)

SpecConcurrent == InitConcurrent /\ [][NextConcurrent]_vars

(***************************************************************************)
(* Properties of the retry executor                                        *)
(***************************************************************************)
RetryDone == rpc \in {"returned", "thrown"}

EveryAttemptFailedRetryable ==
  /\ Len(rErrs) = rCalls
  /\ \A i \in DOMAIN rClass : rClass[i]

\* C5: with maxRetries = N >= 1, an operation that fails on every attempt with
\* a retryable error is invoked exactly N times (never more while running), and
\* the executor then throws the error raised by the N-th attempt.
C5_RetryTermination ==
  rMax >= 1 =>
    /\ rCalls <= rMax
    /\ (RetryDone /\ EveryAttemptFailedRetryable) =>
         /\ rpc = "thrown"
         /\ rCalls = rMax
         /\ Len(rErrs) = rMax
         /\ rErrs[rMax].attempt = rMax
         /\ rOutcome = Thrown(rErrs[rMax])

C5_Witness ==
  /\ rpc = "thrown"
  /\ rMax = MaxRetries
  /\ rCalls = MaxRetries
  /\ EveryAttemptFailedRetryable
  /\ rErrs[1].message # rErrs[rMax].message

\* C6: when the first attempt fails with an error classified non-retryable
\* (such as "400 bad request"), the operation is invoked exactly once, no
\* backoff sleep occurs and that very error is thrown to the caller.
C6_RetryShortCircuit ==
  /\ \A i \in DOMAIN rErrs : rErrs[i].message = "400 bad request" => ~rClass[i]
  /\ (Len(rErrs) >= 1 /\ ~rClass[1]) =>
       /\ rpc = "thrown"
       /\ rCalls = 1
       /\ rSleeps = <<>>
       /\ rOutcome = Thrown(rErrs[1])

C6_Witness ==
  /\ rpc = "thrown"
  /\ rMax = MaxRetries
  /\ rErrs = <<Err("400 bad request", 1)>>
  /\ rCalls = 1

\* C7: with initial delay D, the sleep between failed attempt k and attempt k+1
\* lasts D * 2^(k-1); no sleep follows a successful attempt or the final failed
\* attempt, so a finished run of a attempts has performed exactly a-1 sleeps.
C7_BackoffGrowth ==
  /\ \A k \in DOMAIN rSleeps : rSleeps[k] = rInit * 2^(k - 1)
  /\ rpc = "sleeping" => Len(rSleeps) = rCalls
  /\ rpc = "awaiting" => Len(rSleeps) = rCalls - 1
  /\ (RetryDone /\ rCalls >= 1) => Len(rSleeps) = rCalls - 1

C7_Witness ==
  /\ RetryDone
  /\ rCalls = MaxRetries
  /\ rSleeps = <<rInit, 2 * rInit>>

\* the substrings C8 lists
TransientSubstrings ==
  { "429", "500", "502", "503", "504", "timeout", "overloaded", "rate limit",
    "quota", "econnreset", "socket", "connection" }

ContainsTransient(msg) ==
  \E sub \in TransientSubstrings : Includes(ToLowerCase(msg), sub)

\* C8: _isRetryableError of gemini2.service.js returns true for every error
\* whose message contains 429, 500, 502, 503, 504, "timeout", "overloaded",
\* "rate limit", "quota", "econnreset", "socket" or "connection", and false for
\* an error whose message contains none of them and is no JSON-parse failure.
C8_ClassifierAsSpecified ==
  \A i \in DOMAIN rErrs :
    rSvc = "gemini2" =>
      /\ ContainsTransient(rErrs[i].message) => rClass[i]
      /\ (~ContainsTransient(rErrs[i].message) /\ rErrs[i].message # InvalidJsonMessage)
           => ~rClass[i]

(***************************************************************************)
(* Properties of the five-phase run                                        *)
(***************************************************************************)
PhaseOrder == <<"grounding", "physical", "pricing", "content">>

PhaseIndex(p) == CHOOSE i \in DOMAIN PhaseOrder : PhaseOrder[i] = p

LaterPhases(p) == {q \in Phases : PhaseIndex(q) > PhaseIndex(p)}

NoLaterPhaseInvoked(p) == \A q \in LaterPhases(p) : calls[q] = 0

\* the grounding phase has yielded an output (visualGrounding returned it)
GroundingYielded == groundingResult # Undefined

IsEbayCompliant == Get(Get(groundingResult, "compliance"), "isEbayCompliant")

\* C1: whenever the grounding phase yields an output whose
\* compliance.isEbayCompliant is false, the run has ended by returning the
\* Rejected outcome (success false, rejected true, reason
\* EBAY_POLICY_VIOLATION, details the grounding output) and none of the phases
\* after grounding has been invoked.
C1_ComplianceRejection ==
  (GroundingYielded /\ IsEbayCompliant = JBool(FALSE)) =>
    /\ pc = "returned"
    /\ outcome.kind = "returned"
    /\ Get(outcome.value, "success") = JBool(FALSE)
    /\ Get(outcome.value, "rejected") = JBool(TRUE)
    /\ Get(outcome.value, "reason") = JStr("EBAY_POLICY_VIOLATION")
    /\ Get(outcome.value, "details") = groundingResult
    /\ NoLaterPhaseInvoked("grounding")

C1_Witness ==
  /\ GroundingYielded
  /\ IsEbayCompliant = JBool(FALSE)
  /\ Get(Get(groundingResult, "compliance"), "reason") = JStr("weapon")
  /\ pc = "returned"
  /\ Len(errs.grounding) = 1

Confidence == Get(Get(groundingResult, "productIdentification"), "confidence")

ComplianceLevel == Get(Get(groundingResult, "compliance"), "level")

\* C3: whenever the grounding output is compliant but its identification
\* confidence is low or its category is restricted, the run has ended by
\* returning RequiresReview (success false, requiresReview true, reason
\* MANUAL_REVIEW_REQUIRED) and no later phase has been invoked.
C3_ReviewOnLowConfidenceOrRestricted ==
  ( /\ GroundingYielded
    /\ IsEbayCompliant = JBool(TRUE)
    /\ (Confidence = JStr("LOW") \/ ComplianceLevel = JStr("RESTRICTED")) ) =>
    /\ pc = "returned"
    /\ outcome.kind = "returned"
    /\ Get(outcome.value, "success") = JBool(FALSE)
    /\ Get(outcome.value, "requiresReview") = JBool(TRUE)
    /\ Get(outcome.value, "reason") = JStr("MANUAL_REVIEW_REQUIRED")
    /\ NoLaterPhaseInvoked("grounding")

\* the keys of a listing payload, its metadata envelope aside
ListingPayloadFields ==
  DOMAIN MapToListingPayload(JObj(EmptyObj), JObj(EmptyObj)).o \ {"metadata"}

IsSuccessPayload(v) == ListingPayloadFields \subseteq DOMAIN v.o

IsRejected(v) == Get(v, "rejected") = JBool(TRUE)

IsRequiresReview(v) == Get(v, "requiresReview") = JBool(TRUE)

VariantsOf(v) ==
  {n \in 1..3 : \/ n = 1 /\ IsSuccessPayload(v)
                \/ n = 2 /\ IsRejected(v)
                \/ n = 3 /\ IsRequiresReview(v)}

IsJsonParseFailure(err) == err.message = InvalidJsonMessage

\* C9: when a phase attempt ends with the JSON-parse failure of _parseJson and
\* attempts remain, the failure is classified retryable, a backoff sleep is
\* taken and the phase function is run again with a new model call; a
\* JSON-parse failure is thrown to the caller only by the last attempt, after
\* every attempt of the phase has failed.
C9_ParseFailureRetried ==
  /\ \A p \in Phases : \A i \in DOMAIN errs[p] :
       (IsJsonParseFailure(errs[p][i]) /\ i < MaxRetries) =>
         /\ IsRetryableError(errs[p][i])
         /\ Len(sleeps[p]) >= i
         /\ \/ calls[p] > i
            \/ calls[p] = i /\ pc = p /\ wait = "timer"
  /\ (outcome.kind = "thrown" /\ IsJsonParseFailure(outcome.error)) =>
       \E p \in Phases :
         /\ calls[p] = MaxRetries
         /\ Len(errs[p]) = MaxRetries
         /\ errs[p][MaxRetries] = outcome.error

C9_Witness ==
  /\ pc = "returned"
  /\ Len(errs.pricing) = 2
  /\ \A i \in 1..2 : IsJsonParseFailure(errs.pricing[i])
  /\ calls.pricing = 3
  /\ IsSuccessPayload(outcome.value)

HasPrefix(str, prefix) ==
  Len(str) >= Len(prefix) /\ SubSeq(str, 1, Len(prefix)) = prefix

\* the failures of _validateSchema and of _cleanJson
IsSchemaOrNoJsonFailure(err) ==
  HasPrefix(err.message, MissingFieldPrefix) \/ err.message = NoJsonMessage

\* C10 as stated: a phase attempt that fails for a missing required field or
\* for want of a JSON object is propagated at once, the phase having been
\* attempted exactly once, with no backoff sleep and no later phase.
C10_AttemptedExactlyOnce ==
  \A p \in Phases : \A i \in DOMAIN errs[p] :
    IsSchemaOrNoJsonFailure(errs[p][i]) =>
      /\ pc = "thrown"
      /\ outcome = Thrown(errs[p][i])
      /\ calls[p] = 1
      /\ sleeps[p] = <<>>
      /\ NoLaterPhaseInvoked(p)

\* C10, amended: a phase attempt that fails for a missing required field or
\* for want of a JSON object is the last attempt of its phase: its error is
\* thrown to the caller at once, no backoff sleep and no attempt follow it and
\* no later phase runs; when it is the first attempt of the phase, the phase
\* has been attempted exactly once and no backoff sleep has occurred.
C10_SchemaFailureNotRetried ==
  \A p \in Phases : \A i \in DOMAIN errs[p] :
    IsSchemaOrNoJsonFailure(errs[p][i]) =>
      /\ ~IsRetryableError(errs[p][i])
      /\ pc = "thrown"
      /\ outcome = Thrown(errs[p][i])
      /\ i = Len(errs[p])
      /\ calls[p] = i
      /\ Len(sleeps[p]) = i - 1
      /\ NoLaterPhaseInvoked(p)
      /\ i = 1 => (calls[p] = 1 /\ sleeps[p] = <<>>)

C10_Witness ==
  /\ pc = "thrown"
  /\ calls.grounding = 1
  /\ errs.grounding = <<Err("Missing required field: compliance", 1)>>
  /\ sleeps.grounding = <<>>

IsMissingFieldFailure(err) == HasPrefix(err.message, MissingFieldPrefix)

IsBareObjectText(t) == StartsWith(t, "{") /\ EndsWith(t, "}") /\ JsonParse(t).ok

\* C13 as stated: cleaning the output of _cleanJson again gives the same
\* text, and every bare JSON object text is left as it is by _cleanJson.
C13_IdempotentAndBareObjectsFixed ==
  /\ spc = "recleaned" => recleanedText = cleanedText
  /\ (spc = "cleaned" /\ IsBareObjectText(rawText)) => cleanedText = Ok(rawText)

\* C13, amended: cleaning the output of _cleanJson again gives the same text,
\* and every bare JSON object text that holds no fence marker is left as it
\* is; a fence marker inside a string value is removed from that value.
C13_CleanJsonIdempotent ==
  /\ spc = "recleaned" => recleanedText = cleanedText
  /\ (spc = "cleaned" /\ IsBareObjectText(rawText) /\ ~Includes(rawText, Fence))
       => cleanedText = Ok(rawText)
  /\ (spc = "cleaned" /\ IsBareObjectText(rawText) /\ Includes(rawText, Fence))
       => cleanedText # Ok(rawText)

\* a truncated text was completed by the recovery and the completed text
\* went through _cleanJson once more
C13_Witness ==
  /\ spc = "recleaned"
  /\ ~Includes(rawText, "}")
  /\ Includes(cleanedText.value, "]}")
  /\ recleanedText = cleanedText

\* a text that is one JSON object, whitespace around it allowed
IsObjectText(t) == JsonParse(t).ok /\ JsonParse(t).value.t = "obj"

\* C14: a JSON object text between an opening fence with a language tag and
\* a closing fence is cleaned to a text that parses to the same object as
\* the cleaned unwrapped text.
C14_FencedParsesToSameObject ==
  (spc = "fenced" /\ IsObjectText(rawText)) =>
    /\ fencedResult.ok
    /\ fencedResult = parsedResult
    /\ parsedResult = ParseJson(CleanJson(rawText).value)

\* a fenced object text with members was cleaned and parsed
C14_Witness ==
  /\ spc = "fenced"
  /\ IsObjectText(rawText)
  /\ fencedResult.ok
  /\ fencedResult.value = JsonParse(rawText).value
  /\ "a" \in DOMAIN fencedResult.value.o

\* the objects and arrays of a text that are still open at its end, outermost
\* first, brackets inside strings not counted
RECURSIVE OpenStructuresFrom(_, _, _)
OpenStructuresFrom(s, i, st) ==
  IF i > Len(s) THEN st
  ELSE LET c == CharAt(s, i) IN
    OpenStructuresFrom(s, i + 1,
      IF st.escaped THEN [st EXCEPT !.escaped = FALSE]
      ELSE IF st.inString /\ c = "\\" THEN [st EXCEPT !.escaped = TRUE]
      ELSE IF c = "\"" THEN [st EXCEPT !.inString = ~@]
      ELSE IF st.inString THEN st
      ELSE IF c \in {"{", "["} THEN [st EXCEPT !.stack = Append(@, c)]
      ELSE IF c \in {"}", "]"} /\ st.stack # <<>>
      THEN [st EXCEPT !.stack = SubSeq(@, 1, Len(@) - 1)]
      ELSE st)

\* the part of a text from its first opening brace on, without the
\* whitespace at its end
FromFirstBrace(t) == TrimEnd(SubSeq(t, IndexOf(t, "{") + 1, Len(t)))

OpenStructures(t) ==
  OpenStructuresFrom(FromFirstBrace(t), 1, [stack |-> <<>>, inString |-> FALSE, escaped |-> FALSE])

RECURSIVE ClosersOf(_)
ClosersOf(stack) ==
  IF stack = <<>> THEN ""
  ELSE (IF stack[Len(stack)] = "{" THEN "}" ELSE "]") \o ClosersOf(SubSeq(stack, 1, Len(stack) - 1))

\* the text completed by a closing quote, if it ends inside a string, and by
\* the closers of its open structures, innermost first
Completion(t) ==
  FromFirstBrace(t) \o (IF OpenStructures(t).inString THEN "\"" ELSE "")
    \o ClosersOf(OpenStructures(t).stack)

\* the text ends inside a string value or right after a complete value or an
\* opening bracket: closers alone complete it
EndsAtValue(t) == JsonParse(Completion(t)).ok

\* no object is open inside an open array
ArraysInsideObjects(stack) ==
  \A i, j \in DOMAIN stack : (i < j /\ stack[i] = "[") => stack[j] = "["

\* model output cut off mid-structure
TruncatedTexts ==
  {pre \o t : pre \in Preambles, t \in UNION {Truncations(o) : o \in ObjectTexts}}

\* truncated output with an opening and no closing brace, its open arrays all
\* nested inside its open objects
IsRecoverableShape(t) ==
  /\ t \in TruncatedTexts
  /\ Includes(t, "{")
  /\ ~Includes(t, "}")
  /\ ArraysInsideObjects(OpenStructures(t).stack)

\* the same, and no fence marker after the opening brace
IsRecoverableShapeWithoutFence(t) ==
  IsRecoverableShape(t) /\ ~Includes(FromFirstBrace(t), Fence)

SpecExampleText == "{\"a\": {\"b\": [1, 2"

SpecExampleObject ==
  JObj([a |-> JObj([b |-> JArr(<<JNum(1), JNum(2)>>)])])

C16_NoBraceThrows ==
  (cleanedText # NoOutcome /\ ~Includes(rawText, "{")) =>
    cleanedText = Fail(NoJsonMessage)

\* truncated output in which an object is open inside an open array
IsBeyondRepair(t) ==
  /\ t \in TruncatedTexts
  /\ Includes(t, "{")
  /\ ~Includes(t, "}")
  /\ ~ArraysInsideObjects(OpenStructures(t).stack)

BeyondRepairExample == "{\"a\": [1, {\"b\": 2"

\* C17: _cleanJson followed by _parseJson either yields one parsed JSON
\* object, the one the cleaned text denotes, or throws the no-JSON or the
\* invalid-JSON error; a truncated text with an object open inside an open
\* array ends in the invalid-JSON error of the parse step.
C17_ObjectOrError ==
  /\ spc \in {"parsed", "fenced"} =>
       /\ parsedResult.ok
       /\ parsedResult.value.t = "obj"
       /\ JsonParse(cleanedText.value).ok
       /\ parsedResult.value = JsonParse(cleanedText.value).value
  /\ spc = "thrown" =>
       \/ cleanedText = Fail(NoJsonMessage) /\ parsedResult = NoOutcome
       \/ cleanedText.ok /\ parsedResult = Fail(InvalidJsonMessage)
  /\ (IsBeyondRepair(rawText) /\ spc \notin {"received", "cleaned", "recleaned"}) =>
       /\ spc = "thrown"
       /\ parsedResult = Fail(InvalidJsonMessage)

\* a text cut off inside an object inside an array was closed with the
\* bracket before the braces and failed to parse
C17_Witness ==
  /\ rawText = BeyondRepairExample
  /\ IsBeyondRepair(rawText)
  /\ cleanedText = Ok(BeyondRepairExample \o "]}}")
  /\ spc = "thrown"
  /\ parsedResult = Fail(InvalidJsonMessage)

(***************************************************************************)
(* Properties of the payload normalizer                                    *)
(***************************************************************************)
\* the default each field of the listing payload is declared with, the
\* processing time of the options left out
DeclaredDefaults ==
  JObj([
    productIdentification |-> JObj([
      brand |-> JStr("Unbranded"),
      model |-> JStr("Unknown"),
      category |-> JStr("Other"),
      upc |-> JNull,
      mpn |-> JNull ]),
    title |-> JStr("Untitled Item"),
    subtitle |-> JNull,
    description |-> JObj([
      plainText |-> JStr("No description available"),
      structure |-> JNull ]),
    condition |-> JObj([
      grade |-> JStr("Used"),
      numericScore |-> JNull,
      description |-> JNull,
      flaws |-> JArr(<<>>),
      userOverride |-> JNull ]),
    weight |-> JObj([
      estimatedLbs |-> JNum(0),
      estimatedOz |-> JNum(0),
      estimatedKg |-> JNum(0),
      confidenceLevel |-> JStr("low"),
      requiresManualVerification |-> JBool(TRUE),
      rationale |-> JStr("Weight estimation unavailable") ]),
    dimensions |-> JObj([
      length |-> JNull,
      width |-> JNull,
      height |-> JNull,
      unit |-> JStr("inches"),
      confidenceLevel |-> JStr("low") ]),
    pricing |-> JObj([
      suggestedPrice |-> JNum(0),
      priceRange |-> JObj([
        min |-> JNum(0),
        max |-> JNum(0) ]),
      currency |-> JStr("USD"),
      confidenceScore |-> OneHalf,
      rationale |-> JNull,
      marketAnalysis |-> DefaultMarketAnalysis,
      strategyRecommendation |-> JObj([
        listingFormat |-> JStr("Fixed Price"),
        auctionStartPrice |-> JNull,
        bestOfferEnabled |-> JBool(TRUE),
        bestOfferAutoAccept |-> JNull,
        bestOfferAutoDecline |-> JNull,
        shippingStrategy |-> JStr("Buyer Pays"),
        reasoning |-> JStr("Default strategy") ]) ]),
    shipping |-> JObj([
      recommendedService |-> JStr("USPS Priority Mail"),
      estimatedCost |-> JNum(0),
      handlingTime |-> JStr("1 business day"),
      packageType |-> JStr("Box"),
      requiresSignature |-> JBool(FALSE),
      fragile |-> JBool(FALSE),
      sellerTemplateMatch |-> JNull ]),
    itemSpecifics |-> JObj(EmptyObj),
    seoOptimization |-> JObj([
      primaryKeywords |-> JArr(<<>>),
      secondaryKeywords |-> JArr(<<>>),
      longtailKeywords |-> JArr(<<>>),
      competitorKeywords |-> JArr(<<>>),
      searchVolume |-> JNull ]),
    listingRecommendations |-> JObj([
      bestOfferEnabled |-> JBool(TRUE),
      internationalShipping |-> JBool(FALSE),
      returnsAccepted |-> JBool(TRUE),
      returnPeriod |-> JStr("30 days"),
      returnShippingPaidBy |-> JStr("Buyer"),
      promotedListings |-> DefaultPromotedListings ]),
    qualityChecks |-> JObj([
      imageQuality |-> JStr("unknown"),
      imageQualityNotes |-> JNull,
      informationCompleteness |-> OneHalf,
      missingInformation |-> JArr(<<>>),
      recommendedAdditionalPhotos |-> JArr(<<>>) ]),
    complianceFlags |-> JObj([
      brandAuthenticity |-> JStr("uncertain"),
      prohibitedItems |-> JBool(FALSE),
      restrictedCategories |-> JBool(FALSE),
      requiresAdditionalDisclosures |-> JBool(FALSE),
      warnings |-> JArr(<<>>) ]),
    legalDisclaimers |-> JObj([
      pricing |-> JStr(PricingDisclaimer),
      condition |-> JStr(ConditionDisclaimer),
      accuracy |-> JStr(AccuracyDisclaimer),
      liability |-> JStr(LiabilityDisclaimer) ]),
    metadata |-> JObj([
      generatedAt |-> GeneratedAt,
      modelVersion |-> JStr(ModelName),
      processingTime |-> JNull ]) ])

\* the blocks of the payload and the fields they hold; the block "" holds the
\* fields of the payload itself
PayloadBlocks == {b \in DOMAIN DeclaredDefaults.o : b \notin {"title", "subtitle", "itemSpecifics"}}

PayloadFields ==
  {<<"", f>> : f \in {"title", "subtitle", "itemSpecifics"}}
    \cup UNION {{<<b, f>> : f \in DOMAIN DeclaredDefaults.o[b].o} : b \in PayloadBlocks}

FieldOf(obj, block, field) ==
  IF block = "" THEN Get(obj, field) ELSE Get(Get(obj, block), field)

\* the second upstream value a field falls back on before its default
Alternate(data, block, field) ==
  CASE block = "productIdentification" /\ field = "category" -> Get(data, "category")
    [] block = "description" /\ field = "plainText" -> Get(data, "description")
    [] block = "shipping" /\ field = "recommendedService" -> Get(Get(data, "shipping"), "service")
    [] block = "seoOptimization" /\ field = "primaryKeywords" -> Get(data, "seoKeywords")
    [] OTHER -> Undefined

NotSupplied(data, block, field) ==
  FieldOf(data, block, field) = Undefined /\ Alternate(data, block, field) = Undefined

\* every block and field of the declared payload is there
HasPayloadShape(payload) ==
  /\ payload.t = "obj"
  /\ DOMAIN payload.o = DOMAIN DeclaredDefaults.o
  /\ \A b \in PayloadBlocks :
       payload.o[b].t = "obj" /\ DOMAIN payload.o[b].o = DOMAIN DeclaredDefaults.o[b].o

NullFields(payload) == {bf \in PayloadFields : FieldOf(payload, bf[1], bf[2]) = JNull}

\* the fields whose declared default is null
DeclaredNullDefaults ==
  { <<"", "subtitle">>, <<"productIdentification", "upc">>, <<"productIdentification", "mpn">>,
    <<"description", "structure">>, <<"condition", "numericScore">>,
    <<"condition", "description">>, <<"condition", "userOverride">>,
    <<"dimensions", "length">>, <<"dimensions", "width">>, <<"dimensions", "height">>,
    <<"pricing", "rationale">>, <<"shipping", "sellerTemplateMatch">>,
    <<"seoOptimization", "searchVolume">>, <<"qualityChecks", "imageQualityNotes">>,
    <<"metadata", "processingTime">> }

IsPartialMapped == npc = "mapped" /\ nVariant \in {"gemini2", "agentic"}

C19_ItemSpecificsTriad ==
  (npc = "mapped" /\ nVariant \in {"five-phase", "condensed"}) =>
    LET specifics == Get(nPayload, "itemSpecifics") IN
      /\ specifics.t = "obj"
      /\ DOMAIN specifics.o # {}
      /\ {"Brand", "Model", "Condition"} \subseteq DOMAIN specifics.o
      /\ \A k \in DOMAIN specifics.o : specifics.o[k] \notin PlaceholderValues \cup {Undefined}

\* C20 as stated: an upstream value that is null, "null", "string", "" or
\* undefined is replaced by the declared default of the field.
C20_SentinelsReplaced ==
  IsPartialMapped =>
    \A bf \in PayloadFields :
      (FieldOf(nData, bf[1], bf[2]) \in UpstreamSentinels \cup {Undefined}
         /\ Alternate(nData, bf[1], bf[2]) \in UpstreamSentinels \cup {Undefined}) =>
        FieldOf(nPayload, bf[1], bf[2]) = FieldOf(DeclaredDefaults, bf[1], bf[2])

\* the fields that are read through _parseFloat
ParsedFields ==
  { <<"pricing", "suggestedPrice">>, <<"shipping", "estimatedCost">> }

\* a value that is present and is no placeholder
IsLegitimate(v) == v \notin UpstreamSentinels \cup {Undefined}

\* C21 as stated: an upstream value that is present and is not a placeholder
\* sentinel is used unchanged in the payload (as the number it spells where
\* the field is read through _parseFloat); zero scores and false flags are
\* carried through and not replaced by a default.
C21_LegitimateValuesCarried ==
  IsPartialMapped =>
    \A bf \in PayloadFields :
      LET upstream == FieldOf(nData, bf[1], bf[2]) IN
        IsLegitimate(upstream) =>
          FieldOf(nPayload, bf[1], bf[2]) =
            IF bf \in ParsedFields THEN ParseFloatBuiltin(upstream) ELSE upstream

DisclaimerFields == {"pricing", "condition", "accuracy", "liability"}

IsNonEmptyString(v) == v.t = "str" /\ v.s # ""

\* the disclaimer text the model supplied for this run
SuppliedDisclaimer(field) ==
  IF nVariant \in {"gemini2", "agentic"}
  THEN FieldOf(nData, "legalDisclaimers", field)
  ELSE FieldOf(nContentOutput, "legalDisclaimers", field)

\* C22 as stated: in every Success payload each of the four legal disclaimer
\* texts is a non-empty string, the model's text when it supplied one and the
\* standard boilerplate otherwise.
C22_DisclaimersNeverBlank ==
  npc = "mapped" =>
    \A field \in DisclaimerFields :
      LET text == FieldOf(nPayload, "legalDisclaimers", field)
          supplied == SuppliedDisclaimer(field)
      IN /\ IsNonEmptyString(text)
         /\ text = IF IsNonEmptyString(supplied) THEN supplied
                   ELSE FieldOf(DeclaredDefaults, "legalDisclaimers", field)

IsPipelineMapped == npc = "mapped" /\ nVariant \in {"five-phase", "condensed"}

\* the fields of the listing payload that are absent or undefined
MissingFields(payload) ==
  {bf \in PayloadFields : FieldOf(payload, bf[1], bf[2]) = Undefined}

\* C23 as stated: the Success payload of either pipeline variant has every
\* field of the listing payload present and not undefined, however partial
\* the model's output was.
C23_EveryFieldPresent ==
  IsPipelineMapped => MissingFields(nPayload) = {}

(***************************************************************************)
(* Properties of the input validation of the five-phase run                *)
(***************************************************************************)
InputErrorMessages ==
  { "Images array must not be empty", "Too many images. Maximum 16 allowed",
    "Missing base64 image data", "Unsupported mime type", "Image too large" }

\* an image the service does not accept: no data, a MIME type that is given
\* and is none of the four allowed ones, or more than 20 MB once decoded
IsBadImage(img) ==
  \/ img.base64 = ""
  \/ (img.mimeType # Undefined
        /\ img.mimeType \notin {JStr("image/jpeg"), JStr("image/jpg"),
                                JStr("image/png"), JStr("image/webp")})
  \/ img.sizeMB > 20

IsBadImageList(imgs) ==
  \/ ~imgs.isArray
  \/ Len(imgs.items) = 0
  \/ Len(imgs.items) > 16
  \/ \E i \in DOMAIN imgs.items : IsBadImage(imgs.items[i])

NoModelCall == \A p \in Phases : calls[p] = 0

\* C24: when the image list is not a non-empty array, has more than 16
\* entries or holds an image without data, with a MIME type outside the
\* allowed four or of more than 20 MB, analyzeMultipleImages fails with an
\* input error and no phase is ever called; a list without such a flaw gets
\* its grounding call.
C24_InvalidInputRejectedBeforeAnyCall ==
  pc # "idle" =>
    IF IsBadImageList(images)
    THEN /\ pc = "thrown"
         /\ outcome.kind = "thrown"
         /\ outcome.error.message \in InputErrorMessages
         /\ NoModelCall
         /\ groundingResult = Undefined
    ELSE calls.grounding >= 1

\* a list whose second image is oversized was refused without a model call
C24_Witness ==
  /\ pc = "thrown"
  /\ images = ArrayOf(<<Jpeg, Oversized>>)
  /\ outcome = Thrown(Err("Image too large", 0))
  /\ NoModelCall

(***************************************************************************)
(* Properties of the phase functions                                       *)
(***************************************************************************)
IsEmptyResponseError(msg) == HasPrefix(msg, "Empty response from ")

\* C25 as stated: when the provider returns no text, the phase function
\* fails with the empty-response error, which is neither the no-JSON nor the
\* invalid-JSON error.
C25_EmptyResponseError ==
  (fpc = "settled" /\ fResponse.kind = "resolves" /\ fResponse.text = "empty") =>
    /\ ~fResult.ok
    /\ IsEmptyResponseError(fResult.message)
    /\ fResult.message \notin {NoJsonMessage, InvalidJsonMessage}

(***************************************************************************)
(* Properties of the retry executor inside the pipeline variants           *)
(***************************************************************************)
\* C26 as stated, for the condensed variant: every model call runs under the
\* retry executor, so the caller sees a transient error only from a step
\* that was attempted as often as the retry limit allows.
C26_CondensedCallsRetried ==
  (cpc = "thrown" /\ ContainsTransient(cOutcome.error.message)) =>
    \E step \in Steps : cCalls[step] >= MaxRetries

(***************************************************************************)
(* Properties of the order of the phases                                   *)
(***************************************************************************)
ResultOf(p) ==
  CASE p = "grounding" -> groundingResult
    [] p = "physical" -> physicalAttributes
    [] p = "pricing" -> pricingStrategy
    [] p = "content" -> listingContent

EarlierPhases(p) == {q \in Phases : PhaseIndex(q) < PhaseIndex(p)}

RunEnded == pc \in {"returned", "thrown"}

\* the step invokes the phase function of p
Invokes(p) == calls'[p] # calls[p]

\* C27: every invocation of a phase function in a run of the five-phase
\* pipeline is the only call in flight, happens while the run has not ended,
\* and is either a retry of the phase in progress or the first call of the
\* phase that follows the one that has just returned its result; all earlier
\* phases have then returned a result and no later phase has been invoked.
\* Once a phase has failed or the run has left early, nothing is invoked.
C27_PhasesInOrder ==
  [][ \A p \in Phases :
        Invokes(p) =>
          /\ calls'[p] = calls[p] + 1
          /\ \A q \in Phases \ {p} : calls'[q] = calls[q]
          /\ ~RunEnded
          /\ pc' = p /\ wait' = "model"
          /\ \A q \in EarlierPhases(p) : ResultOf(q)' # Undefined /\ calls[q] >= 1
          /\ NoLaterPhaseInvoked(p)
          /\ ResultOf(p) = Undefined
          /\ \/ pc = p /\ wait = "timer"
             \/ pc = "idle" /\ p = "grounding"
             \/ \E previous \in Phases :
                  /\ pc = previous /\ wait = "model"
                  /\ PhaseIndex(p) = PhaseIndex(previous) + 1
                  /\ ResultOf(previous) = Undefined /\ ResultOf(previous)' # Undefined
    ]_vars

\* a run went through the four phases, the first of them twice, and returned
\* the listing
C27_Witness ==
  /\ pc = "returned"
  /\ calls.grounding = 2
  /\ Len(sleeps.grounding) = 1
  /\ \A p \in Phases : calls[p] >= 1 /\ ResultOf(p) # Undefined
  /\ IsSuccessPayload(outcome.value)

(***************************************************************************)
(* Properties of interleaved runs                                          *)
(***************************************************************************)
Apply(state, event) ==
  CASE event.type = "start" -> Started(state.svc, event.images)
    [] event.type = "answer" -> Settled(state.run, state.svc, event.response)
    [] event.type = "timer" -> Resumed(state.run, state.svc)

RECURSIVE Replay(_, _)
Replay(events, state) ==
  IF events = <<>> THEN state ELSE Replay(Tail(events), Apply(state, Head(events)))

\* the local variables of a run that is given these inputs with no other run
\* on the instance
RunAlone(events) == Replay(events, Step(IdleRun, Constructed)).run

\* C28: however the runs are interleaved at their model calls and backoff
\* sleeps, the phase results, attempt counter, retry delay and outcome of
\* each run are those of a run that is given the same images and the same
\* answers alone, and the retry settings of the instance are never written.
C28_RunsAreIsolated ==
  /\ \A r \in Runs : locals[r] = RunAlone(inputs[r])
  /\ service.maxRetries = Constructed.maxRetries
  /\ service.initialDelayMs = Constructed.initialDelayMs

\* one run awaits its second grounding attempt, its delay doubled, while the
\* other, begun after that, awaits its pricing call on a first attempt
C28_Witness ==
  /\ locals["a"].pc = "grounding" /\ locals["a"].wait = "model"
  /\ locals["a"].attempt = 2 /\ locals["a"].delay = 3000
  /\ locals["b"].pc = "pricing" /\ locals["b"].wait = "model"
  /\ locals["b"].attempt = 1 /\ locals["b"].delay = 1500
  /\ locals["b"].groundingResult # Undefined

(***************************************************************************)
(* GeminiService.analyzeMultipleImages of ai.agentic.js: image triage      *)
(***************************************************************************)
\* what `this.<name>` finds on the exported instance: the properties the
\* constructor assigns and the methods of the class
GeminiServiceMembers ==
  { "apiKey", "maxRetries", "initialDelayMs", "modelName", "genAI", "MAX_IMAGE_SIZE_MB",
    "ALLOWED_MIME_TYPES", "MAX_IMAGES_PER_REQUEST",
    "analyzeSingleImage", "analyzeMultipleImages", "analyzeBulkProducts",
    "generateHtmlTemplate", "draftTermsOfService", "_analyzeImageWithContext",
    "_analyzeMultipleImagesWithContext", "_analyzeBulkProductSeparation",
    "_generateHtmlFromListing", "_generateTermsOfService", "_buildComprehensivePrompt",
    "_buildBulkSeparationPrompt", "_buildHtmlTemplatePrompt", "_buildTermsOfServicePrompt",
    "_retryWithBackoff", "_isRetryableError", "_cleanJsonResponse", "_parseJsonSafely",
    "_validateImageInput", "_generateCorrelationId", "_mapToListingPayload", "_parseFloat" }

UndefinedMemberMessage(name) ==
  "Cannot read properties of undefined (reading '" \o name \o "')"

\* lines 712-729: the checks on the images argument, in the order of the code
ValidateTriageImages(imgs) ==
  IF ~imgs.isArray \/ Len(imgs.items) = 0
  THEN Fail("Images array is required and must not be empty")
  ELSE IF Len(imgs.items) > MaxImagesPerRequest
  THEN Fail("Maximum 16 images allowed per request")
  ELSE LET bad == {i \in DOMAIN imgs.items : ~ValidateImageInput(imgs.items[i]).ok} IN
         IF bad = {} THEN Ok(Undefined)
         ELSE ValidateImageInput(imgs.items[CHOOSE i \in bad : \A j \in bad : i <= j])

\* lines 722-729: one buffer per image, index counted from 0
Buffers(imgs) ==
  [ i \in DOMAIN imgs.items |->
      [ mimeType |-> IF imgs.items[i].mimeType = Undefined THEN JStr("image/jpeg")
                     ELSE imgs.items[i].mimeType,
        buffer |-> imgs.items[i].base64,
        index |-> i - 1 ] ]

\* AIAgentic.visualImageID applied to the answer of its model call
VisualImageID(resp) ==
  IF resp.kind = "rejects" THEN Fail(resp.message)
  ELSE IF resp.text = "empty" THEN Fail("Empty response from visualImageID")
  ELSE LET parsed == CleanAndParse(resp) IN
         IF ~parsed.ok THEN parsed
         ELSE ValidateSchema(parsed.value, <<"images", "summary">>)

\* lines 739-752: the recommended buffers, or the first buffer when none is
SelectBuffers(buffers, visualAnalysis) ==
  LET recommendedForAI == Get(Get(visualAnalysis, "summary"), "recommendedForAI") IN
    IF recommendedForAI.t # "arr"
    THEN Fail("visualAnalysis.summary.recommendedForAI.includes is not a function")
    ELSE LET includes(b) == \E k \in DOMAIN recommendedForAI.a :
                              recommendedForAI.a[k] = JNum(b.index)
             selectedBuffers == SelectSeq(buffers, includes)
         IN IF Len(selectedBuffers) = 0 THEN Ok(<<buffers[1]>>)
            ELSE Ok(selectedBuffers)

TriageAnalysis(recommended) ==
  JObj([ images |-> JArr(<<JObj([index |-> JNum(0), role |-> JStr("primary")])>>),
         summary |-> JObj([ usableImages |-> JNum(Len(recommended)),
                            recommendedForAI |-> JArr([k \in DOMAIN recommended |->
                                                         JNum(recommended[k])]) ]) ])

\* what the provider may answer to the triage request
TriageAnswers ==
  { Rejects("Request failed with status code 503"),
    Resolves("empty", Undefined),
    Resolves("garbled", Undefined),
    Resolves("json", JObj([images |-> JArr(<<>>)])),
    Resolves("json", JObj([images |-> JArr(<<JNum(0)>>), summary |-> JObj([usableImages |-> JNum(1)])])) }
    \cup {Resolves("json", TriageAnalysis(r)) : r \in {<<>>, <<0>>, <<1>>, <<0, 1>>, <<1, 2>>, <<7>>}}

TriageImageInputs ==
  ImageInputs \cup {ArrayOf(<<Jpeg, PngWithoutMimeType, Jpeg>>), ArrayOf(<<PngWithoutMimeType>>)}

InitTriage ==
  /\ RetryParked
  /\ PipelineParked
  /\ CondensedParked
  /\ SanitizeParked
  /\ NormalizeParked
  /\ PhaseParked
  /\ ConcurrentParked
  /\ DraftParked
  /\ SetupParked
  /\ tpc = "idle"
  /\ tImages \in TriageImageInputs
  /\ tAnswer \in TriageAnswers
  /\ tAttempt = 0
  /\ tSelected = Undefined
  /\ tOutcome = NoOutcome

\* the catch of analyzeMultipleImages logs and rethrows
TriageRunThrows(msg) ==
  /\ tpc' = "thrown"
  /\ tOutcome' = Thrown(Err(msg, tAttempt'))

\* the catch of _retryWithBackoff: rethrow, or wait delayMs before the next attempt
TriageCaught(msg) ==
  IF ~AgenticIsRetryableError(Err(msg, tAttempt')) \/ tAttempt' >= MaxRetries
  THEN TriageRunThrows(msg)
  ELSE tpc' = "backoff" /\ tOutcome' = tOutcome

\* one attempt of the operation () => this.aiAgentic.visualImageID(buffers, correlationId)
TriageAttempt ==
  /\ tAttempt' = tAttempt + 1
  /\ IF "aiAgentic" \notin GeminiServiceMembers
     THEN TriageCaught(UndefinedMemberMessage("visualImageID"))
     ELSE tpc' = "triage" /\ tOutcome' = tOutcome

\* analyzeMultipleImages up to its first await
TriageRunStarts ==
  /\ tpc = "idle"
  /\ LET checked == ValidateTriageImages(tImages) IN
       IF ~checked.ok
       THEN /\ tAttempt' = tAttempt
            /\ TriageRunThrows(checked.message)
       ELSE TriageAttempt
  /\ UNCHANGED <<tImages, tAnswer, tSelected, retryVars, pipelineVars, condensedVars,
                 sanitizeVars, normalizeVars, phaseVars, concurrentVars, draftVars, setupVars>>

NextTriage == TriageRunStarts

SpecTriage == InitTriage /\ [][NextTriage]_vars

\* the triage answers with an analysis that carries a recommendedForAI list
IsTriaged ==
  /\ ValidateTriageImages(tImages).ok
  /\ VisualImageID(tAnswer).ok
  /\ SelectBuffers(Buffers(tImages), VisualImageID(tAnswer).value).ok

\* C29: when the images are valid and the triage answers with a summary
\* listing recommendedForAI, the run does not fail in the triage: the buffers
\* handed to the downstream analysis are exactly those whose index is in the
\* list, or exactly the first buffer when none is.
C29_TriageSelectsRecommended ==
  (tpc \notin {"idle", "triage", "backoff"} /\ IsTriaged) =>
    tSelected = SelectBuffers(Buffers(tImages), VisualImageID(tAnswer).value)

(***************************************************************************)
(* DraftingService.batchCreateDrafts (drafting.service.js)                 *)
(***************************************************************************)
BatchSize == 25

MaxDrafts == 51

\* a draft: { sku, inventoryItem, offer }; the last two only travel in the requests
Draft(sku) == [sku |-> sku]

DraftLists ==
  { [k \in 1..n |-> Draft(k)] :
      n \in {0, 1, BatchSize, BatchSize + 1, 2 * BatchSize, MaxDrafts} }
    \cup {[k \in 1..(BatchSize + 1) |-> Draft(1)]}

\* drafts.slice(i, i + 25)
Chunk(drafts, i) ==
  SubSeq(drafts, i + 1, IF i + BatchSize < Len(drafts) THEN i + BatchSize ELSE Len(drafts))

\* entries of offerRes.data.responses
Created(k) == [statusCode |-> 201, offerId |-> JNum(k), errors |-> Undefined]

Refused(k) ==
  [statusCode |-> 400, offerId |-> Undefined, errors |-> JArr(<<JStr("Invalid offer")>>)]

\* how the marketplace may answer a bulk_create_offer request of count offers
OfferAnswers(count) ==
  { [kind |-> "rejects", hasResponses |-> FALSE, responses |-> <<>>],
    [kind |-> "resolves", hasResponses |-> FALSE, responses |-> <<>>] }
    \cup { [kind |-> "resolves", hasResponses |-> TRUE, responses |-> rs] :
             rs \in { [k \in 1..count |-> Created(k)],
                      [k \in 1..count |-> Refused(k)],
                      [k \in 1..count |-> IF k % 2 = 1 THEN Created(k) ELSE Refused(k)],
                      [k \in 1..(count - 1) |-> Created(k)],
                      [k \in 1..(count + 1) |-> Created(k)] } }

AllOfferAnswers == UNION {OfferAnswers(count) : count \in 1..BatchSize}

\* the catch: chunk.forEach((d) => results.push({ success: false, sku, error }))
BatchFailed(chunk) ==
  [ idx \in DOMAIN chunk |->
      [ success |-> FALSE, sku |-> chunk[idx].sku, offerId |-> Undefined,
        error |-> JStr("Batch failed") ] ]

\* offerRes.data.responses.forEach: one result per response, until chunk[idx]
\* is undefined and reading its sku throws
OfferResults(chunk, responses) ==
  LET paired == IF Len(responses) < Len(chunk) THEN Len(responses) ELSE Len(chunk) IN
    [ pushed |-> [ idx \in 1..paired |->
                     LET r == responses[idx]
                         success == r.statusCode < 300
                     IN [ success |-> success, sku |-> chunk[idx].sku, offerId |-> r.offerId,
                          error |-> IF success THEN Undefined ELSE r.errors ] ],
      threw |-> Len(responses) > Len(chunk) ]

\* the log entry of the batch in flight, with one of its fields set
Answered(field, value) ==
  [dLog EXCEPT ![Len(dLog)] = [@ EXCEPT ![field] = value]]

\* the head of the for loop with i, results: the next batch is sent or the
\* results are returned
LoopHead(i, results, log) ==
  /\ dI' = i
  /\ dResults' = results
  /\ IF i < Len(dDrafts)
     THEN /\ dpc' = "inventory"
          /\ dLog' = Append(log, [ first |-> i + 1, last |-> i + Len(Chunk(dDrafts, i)),
                                   inventory |-> "pending", offers |-> "none",
                                   responses |-> 0 ])
     ELSE /\ dpc' = "done"
          /\ dLog' = log

InitDraft ==
  /\ RetryParked
  /\ PipelineParked
  /\ CondensedParked
  /\ SanitizeParked
  /\ NormalizeParked
  /\ PhaseParked
  /\ ConcurrentParked
  /\ TriageParked
  /\ SetupParked
  /\ dpc = "idle"
  /\ dDrafts \in DraftLists
  /\ dI = 0
  /\ dResults = <<>>
  /\ dLog = <<>>

\* batchCreateDrafts up to its first await
BatchCreateDrafts ==
  /\ dpc = "idle"
  /\ LoopHead(0, <<>>, <<>>)
  /\ UNCHANGED <<dDrafts, retryVars, pipelineVars, condensedVars, sanitizeVars,
                 normalizeVars, phaseVars, concurrentVars, triageVars, setupVars>>

\* the bulk_create_or_replace_inventory_item request settles
InventoryAnswered(resolved) ==
  /\ dpc = "inventory"
  /\ IF resolved
     THEN /\ dpc' = "offers"
          /\ dLog' = Answered("inventory", "resolved")
          /\ UNCHANGED <<dI, dResults, setupVars>>
     ELSE LoopHead(dI + BatchSize, dResults \o BatchFailed(Chunk(dDrafts, dI)),
                   Answered("inventory", "rejected"))
  /\ UNCHANGED <<dDrafts, retryVars, pipelineVars, condensedVars, sanitizeVars,
                 normalizeVars, phaseVars, concurrentVars, triageVars, setupVars>>

\* the bulk_create_offer request settles
OffersAnswered(answer) ==
  /\ dpc = "offers"
  /\ answer \in OfferAnswers(Len(Chunk(dDrafts, dI)))
  /\ LET chunk == Chunk(dDrafts, dI) IN
       IF answer.kind = "rejects"
       THEN LoopHead(dI + BatchSize, dResults \o BatchFailed(chunk),
                     Answered("offers", "rejected"))
       ELSE IF ~answer.hasResponses
       THEN LoopHead(dI + BatchSize, dResults \o BatchFailed(chunk),
                     Answered("offers", "malformed"))
       ELSE LET offerResults == OfferResults(chunk, answer.responses)
                log == [Answered("offers", "resolved") EXCEPT
                          ![Len(dLog)].responses = Len(answer.responses)]
            IN LoopHead(dI + BatchSize,
                        dResults \o offerResults.pushed
                          \o (IF offerResults.threw THEN BatchFailed(chunk) ELSE <<>>),
                        log)
  /\ UNCHANGED <<dDrafts, retryVars, pipelineVars, condensedVars, sanitizeVars,
                 normalizeVars, phaseVars, concurrentVars, triageVars, setupVars>>

NextDraft ==
  \/ BatchCreateDrafts
  \/ \E resolved \in BOOLEAN : InventoryAnswered(resolved)
  \/ \E answer \in AllOfferAnswers : OffersAnswered(answer)

SpecDraft == InitDraft /\ [][NextDraft]_vars

\* the batches sent so far are the consecutive runs of 25 drafts, the last
\* one shorter
BatchesConsecutive ==
  \A j \in DOMAIN dLog :
    /\ dLog[j].first = BatchSize * (j - 1) + 1
    /\ dLog[j].last = IF BatchSize * j < Len(dDrafts) THEN BatchSize * j ELSE Len(dDrafts)

\* every draft went out in a batch, whatever happened to the batches before
AllBatchesSent == Len(dLog) = (Len(dDrafts) + BatchSize - 1) \div BatchSize

\* every draft of a batch whose inventory or offer request failed has the
\* "Batch failed" result
FailedBatchesMarked ==
  \A j \in DOMAIN dLog :
    (dLog[j].inventory = "rejected" \/ dLog[j].offers = "rejected") =>
      \A p \in dLog[j].first..dLog[j].last :
        \E q \in DOMAIN dResults : dResults[q] = BatchFailed(<<dDrafts[p]>>)[1]

\* C30: batchCreateDrafts sends the drafts in consecutive batches of at most
\* 25 in input order, each draft in exactly one batch; a batch whose
\* inventory or offer request fails marks each of its drafts "Batch failed"
\* and the remaining batches are still processed; the returned results have
\* exactly one entry per input draft.
C30_BatchedDraftResults ==
  /\ BatchesConsecutive
  /\ dpc = "done" =>
       /\ AllBatchesSent
       /\ FailedBatchesMarked
       /\ Len(dResults) = Len(dDrafts)

(***************************************************************************)
(* The mapper on the empty object                                          *)
(***************************************************************************)
IsEmptyObjectMapped == npc = "mapped" /\ nVariant = "gemini2" /\ nData = JObj(EmptyObj)

\* C31: _mapToListingPayload({}) has productIdentification brand
\* "Unbranded", model "Unknown" and category "Other", title "Untitled Item",
\* condition.grade "Used", pricing.currency "USD", pricing.confidenceScore
\* 0.5, pricing.suggestedPrice 0, weight.confidenceLevel "low" with
\* requiresManualVerification true, and itemSpecifics {}.
C31_EmptyObjectDefaults ==
  IsEmptyObjectMapped =>
    /\ FieldOf(nPayload, "productIdentification", "brand") = JStr("Unbranded")
    /\ FieldOf(nPayload, "productIdentification", "model") = JStr("Unknown")
    /\ FieldOf(nPayload, "productIdentification", "category") = JStr("Other")
    /\ Get(nPayload, "title") = JStr("Untitled Item")
    /\ FieldOf(nPayload, "condition", "grade") = JStr("Used")
    /\ FieldOf(nPayload, "pricing", "currency") = JStr("USD")
    /\ FieldOf(nPayload, "pricing", "confidenceScore") = JFrac(1, 2)
    /\ FieldOf(nPayload, "pricing", "suggestedPrice") = JNum(0)
    /\ FieldOf(nPayload, "weight", "confidenceLevel") = JStr("low")
    /\ FieldOf(nPayload, "weight", "requiresManualVerification") = JBool(TRUE)
    /\ Get(nPayload, "itemSpecifics") = JObj(EmptyObj)

C31_Witness ==
  /\ IsEmptyObjectMapped
  /\ nPayload.t = "obj"
  /\ Get(nPayload, "title") = JStr("Untitled Item")

(***************************************************************************)
(* The span between the first opening and the last closing brace           *)
(***************************************************************************)
\* an opening brace occurs before a later closing brace
HasBraceBeforeClosing(t) ==
  \E i \in 1..Len(t), j \in 1..Len(t) : i < j /\ CharAt(t, i) = "{" /\ CharAt(t, j) = "}"

\* the text from its first opening brace to its last closing brace
BraceSpan(t) == SubSeq(t, IndexOf(t, "{") + 1, LastIndexOf(t, "}") + 1)

IsFenceFreeWithSpan == ~Includes(rawText, Fence) /\ HasBraceBeforeClosing(rawText)

\* the structures a text leaves open, as the recovery scan counts them
IsUnbalanced(t) ==
  LET st == ScanStructure(t, 1, [braceCount |-> 0, bracketCount |-> 0,
                                 inString |-> FALSE, escaped |-> FALSE])
  IN st.braceCount # 0 \/ st.bracketCount # 0 \/ st.inString

\* C32: for a fence-free text in which an opening brace occurs before a later
\* closing brace, _cleanJson returns exactly the text from the first opening
\* brace to the last closing brace: the prose around it is dropped and
\* nothing is appended, also when that span is truncated or unbalanced.
C32_SpanReturnedVerbatim ==
  (spc # "received" /\ IsFenceFreeWithSpan) => cleanedText = Ok(BraceSpan(rawText))

C32_Witness ==
  /\ spc = "cleaned"
  /\ IsFenceFreeWithSpan
  /\ IsUnbalanced(BraceSpan(rawText))
  /\ IndexOf(rawText, "{") > 0
  /\ LastIndexOf(rawText, "}") + 1 < Len(rawText)
  /\ cleanedText.value = BraceSpan(rawText)

(***************************************************************************)
(* The closers the recovery appends                                        *)
(***************************************************************************)
\* the number of backslashes in a row right before character i
BackslashesBefore(t, i) ==
  Cardinality({k \in 1..(i - 1) : \A j \in (i - k)..(i - 1) : CharAt(t, j) = "\\"})

\* character i follows a backslash escape
IsEscaped(t, i) == BackslashesBefore(t, i) % 2 = 1

\* character i lies inside a string literal: an odd number of quotes that
\* follow no backslash escape precede it
InStringAt(t, i) ==
  Cardinality({j \in 1..(i - 1) : CharAt(t, j) = "\"" /\ ~IsEscaped(t, j)}) % 2 = 1

\* the occurrences of a character outside string literals
Counted(t, c) ==
  Cardinality({i \in 1..Len(t) : CharAt(t, i) = c /\ ~IsEscaped(t, i) /\ ~InStringAt(t, i)})

\* how many more opening than closing characters the text has outside strings
Unmatched(t, opening, closing) ==
  IF Counted(t, opening) > Counted(t, closing)
  THEN Counted(t, opening) - Counted(t, closing) ELSE 0

\* the text with a quote if it ends inside a string, then the closing
\* brackets, then the closing braces
ExpectedRecovery(t) ==
  t \o (IF InStringAt(t, Len(t) + 1) THEN "\"" ELSE "")
    \o Repeat("]", Unmatched(t, "[", "]")) \o Repeat("}", Unmatched(t, "{", "}"))

\* what _cleanJson hands to _attemptJsonRecovery: the text without its fences,
\* from its first opening brace on
RecoveryInput(t) ==
  LET cleaned == Trim(RemoveFences(StripTrailingFence(StripLeadingFence(Trim(t))))) IN
    IF IndexOf(cleaned, "{") = -1 THEN ""
    ELSE SubSeq(cleaned, IndexOf(cleaned, "{") + 1, Len(cleaned))

\* the text has an opening brace and no closing brace after the first one
IsTruncatedInput(t) ==
  /\ RecoveryInput(t) # ""
  /\ IndexOf(RecoveryInput(t), "}") = -1

\* C33: for a text with an opening brace and no closing brace after it, the
\* recovered text is the input from its first opening brace followed by one
\* quote if the scan ends inside a string literal (a quote after a backslash
\* escape does not toggle the string state, braces and brackets inside
\* strings are not counted), then one closing bracket per unmatched opening
\* bracket, then one closing brace per unmatched opening brace; it always
\* ends with a closing brace.
C33_RecoveryAppendsClosers ==
  (spc # "received" /\ IsTruncatedInput(rawText)) =>
    /\ cleanedText = Ok(ExpectedRecovery(RecoveryInput(rawText)))
    /\ EndsWith(cleanedText.value, "}")

\* a text cut off inside a string, with an object open inside an open array
C33_Witness ==
  /\ spc = "cleaned"
  /\ IsTruncatedInput(rawText)
  /\ InStringAt(RecoveryInput(rawText), Len(RecoveryInput(rawText)) + 1)
  /\ Unmatched(RecoveryInput(rawText), "[", "]") = 1
  /\ Unmatched(RecoveryInput(rawText), "{", "}") = 2
  /\ EndsWith(cleanedText.value, "\"]}}")

(***************************************************************************)
(* The executor on an operation that succeeds after failures               *)
(***************************************************************************)
\* the executor is done and its last invocation of the operation raised no
\* error: the operation succeeded on attempt rCalls
SucceededOnLastCall == RetryDone /\ rCalls = Len(rErrs) + 1

\* the caller got the value some invocation of the operation resolved to
ReturnedAResult ==
  /\ rOutcome.kind = "returned"
  /\ \E k \in 1..rCalls : rOutcome.value = OpResult(k)

\* an operation that first succeeds on attempt k after k-1 retryable
\* failures: the caller gets the result of attempt k, the operation was
\* invoked k times and none of the k-1 errors is thrown
FirstSuccessReturned ==
  SucceededOnLastCall =>
    /\ rpc = "returned"
    /\ rOutcome = Returned(OpResult(rCalls))
    /\ rAttempt = rCalls
    /\ \A i \in DOMAIN rErrs : rClass[i] /\ rErrs[i].attempt = i
    /\ rSvc = "gemini2" => rCalls <= rMax

FirstCallInFlight(p) == pc = p /\ wait = "model" /\ errs[p] = <<>>

\* the attempts and the backoff that the phases before p consumed
ConsumedBefore(p) ==
  [attempts |-> Len(errs.grounding) * (IF p = "grounding" THEN 0 ELSE 1)
                + Len(errs.physical) * (IF p \in {"pricing", "content"} THEN 1 ELSE 0)
                + Len(errs.pricing) * (IF p = "content" THEN 1 ELSE 0),
   sleeps |-> Len(sleeps.grounding) * (IF p = "grounding" THEN 0 ELSE 1)
              + Len(sleeps.physical) * (IF p \in {"pricing", "content"} THEN 1 ELSE 0)
              + Len(sleeps.pricing) * (IF p = "content" THEN 1 ELSE 0)]

\* C35: in a five-phase run every phase starts with attempt counter 1 and
\* the initial delay of 1500 ms, whatever the earlier phases of the run
\* consumed: the first call of a phase carries attempt 1 and delay 1500,
\* the failures of a phase are numbered from 1 and its first backoff
\* sleep lasts 1500 ms.
C35_PhaseStartsFresh ==
  \A p \in Phases :
    /\ FirstCallInFlight(p) => (attempt = 1 /\ delay = 1500 /\ sleeps[p] = <<>>)
    /\ \A i \in DOMAIN errs[p] : errs[p][i].attempt = i
    /\ sleeps[p] # <<>> => sleeps[p][1] = 1500

\* the physical phase starts after grounding failed twice and slept twice
C35_Witness ==
  /\ FirstCallInFlight("physical")
  /\ ConsumedBefore("physical") = [attempts |-> 2, sleeps |-> 2]
  /\ sleeps.grounding = <<1500, 3000>>
  /\ attempt = 1
  /\ delay = 1500

\* ---------------------------------------------------------------------
\* A five-phase run ends, within twelve model calls and eight sleeps
\* ---------------------------------------------------------------------

\* the runs followed to their end: one accepted and one refused image
\* list; per phase a retryable and a final provider error and the JSON
\* answers; no cap on the failures of a run
LiveImageInputs == {NotAnArray, ArrayOf(<<Jpeg>>)}

LiveFailures == {Rejects(m) : m \in ProviderErrors}

\* a grounding answer that names no brand, no model and no category
UnidentifiedGrounding ==
  JObj([ productIdentification |-> JObj([ brand |-> JStr(""), model |-> JNull,
                                          confidence |-> JStr("LOW") ]),
         compliance |-> Compliance(TRUE, "ALLOWED"),
         recommendations |-> Recommendations(FALSE) ])

\* an identity other than the one the grounding answers carry
OtherIdentity ==
  JObj([ brand |-> JStr("Adidas"), model |-> JStr("Samba"), category |-> JStr("Sneakers") ])

\* a later phase's answer that names a product of its own
WithOtherIdentity(answer) ==
  Put(Put(answer, "productIdentification", OtherIdentity), "category", JStr("Sneakers"))

LiveGroundingResponses ==
  LiveFailures \cup
    {Resolves("json", GroundingOutput(c, r, "HIGH", "ALLOWED")) : c \in BOOLEAN, r \in BOOLEAN}
    \cup {Resolves("json", UnidentifiedGrounding)}

LivePhysicalResponses ==
  LiveFailures \cup {Resolves("json", v) : v \in PhysicalObjects \ {JObj(EmptyObj)}}
    \cup {Resolves("json", WithOtherIdentity(v)) : v \in PhysicalObjects \ {JObj(EmptyObj)}}

LivePricingResponses ==
  LiveFailures \cup {Resolves("json", v) : v \in PricingObjects \ {JObj(EmptyObj)}}

LiveContentResponses ==
  LiveFailures \cup {Resolves("json", v) : v \in ContentObjects \ {JObj(EmptyObj)}}
    \cup {Resolves("json", WithOtherIdentity(v)) : v \in ContentObjects \ {JObj(EmptyObj)}}

\* the model call in flight returns or throws: the step of one of the four
\* handlers above, each of which is taken with wait = "model" in a phase
\* and advances the clock by one, whatever the answer is
ModelCallSettles ==
  /\ pc \in Phases
  /\ wait = "model"
  /\ clock' = clock + 1

NextLive ==
  \/ \E imgs \in LiveImageInputs : AnalyzeMultipleImages(imgs)
  \/ \E resp \in LiveGroundingResponses : GroundingSettles(resp)
  \/ \E resp \in LivePhysicalResponses : PhysicalAttributesSettles(resp)
  \/ \E resp \in LivePricingResponses : PricingSettles(resp)
  \/ \E resp \in LiveContentResponses : ContentSettles(resp)
  \/ BackoffElapsed

\* every model call in flight settles and every backoff timer fires
SpecLive ==
  /\ Init
  /\ [][NextLive]_vars
  /\ WF_clock(ModelCallSettles)
  /\ WF_vars(BackoffElapsed)

ModelCalls == calls.grounding + calls.physical + calls.pricing + calls.content

BackoffSleeps ==
  Len(sleeps.grounding) + Len(sleeps.physical) + Len(sleeps.pricing) + Len(sleeps.content)

\* Success, Rejected, RequiresReview or a thrown error
EndsInKnownOutcome ==
  \/ pc = "thrown" /\ outcome.kind = "thrown"
  \/ /\ pc = "returned"
     /\ outcome.kind = "returned"
     /\ \/ IsSuccessPayload(outcome.value)
        \/ IsRejected(outcome.value)
        \/ IsRequiresReview(outcome.value)

\* C36: when every model call eventually returns or throws, every run of
\* the five-phase pipeline ends, in Success, Rejected, RequiresReview or
\* a thrown error, after at most 12 model calls and at most 8 backoff
\* sleeps.
C36_RunTerminates ==
  /\ [](ModelCalls <= 12 /\ BackoffSleeps <= 8)
  /\ [](RunEnded => EndsInKnownOutcome)
  /\ [](pc # "idle" => <>RunEnded)

\* a run that ended after twelve model calls and eight sleeps
C36_Witness ==
  /\ RunEnded
  /\ ModelCalls = 12
  /\ BackoffSleeps = 8
  /\ \A p \in Phases : calls[p] = 3

\* ---------------------------------------------------------------------
\* The grounding identity is the identity of the whole run
\* ---------------------------------------------------------------------

IsSuccess == pc = "returned" /\ outcome.kind = "returned" /\ IsSuccessPayload(outcome.value)

GroundingIdentity == Get(groundingResult, "productIdentification")

IsNonEmpty(v) == v.t = "str" /\ v.s # ""

\* the grounding value of a field when it is non-empty, else the default
GroundingOrDefault(field, default) ==
  IF IsNonEmpty(Get(GroundingIdentity, field))
  THEN Get(GroundingIdentity, field)
  ELSE JStr(default)

\* a later phase answered with a product identification of its own
LaterPhaseNamedAProduct ==
  /\ Get(physicalAttributes, "productIdentification") = OtherIdentity
  /\ Get(listingContent, "productIdentification") = OtherIdentity
  /\ Get(listingContent, "category") = JStr("Sneakers")

\* C37: in a five-phase run the product identification handed to the
\* physical, pricing and content phases is the grounding phase's
\* productIdentification, and in a run that reaches Success the payload's
\* brand, model and category are the grounding values when those are
\* non-empty and "Unbranded", "Unknown", "Other" otherwise, whatever the
\* later phases answered.
C37_GroundingIdentityKept ==
  /\ pc \in {"physical", "pricing", "content"} =>
       (context = GroundingIdentity /\ context # Undefined)
  /\ IsSuccess =>
       /\ context = GroundingIdentity
       /\ FieldOf(outcome.value, "productIdentification", "brand")
            = GroundingOrDefault("brand", "Unbranded")
       /\ FieldOf(outcome.value, "productIdentification", "model")
            = GroundingOrDefault("model", "Unknown")
       /\ FieldOf(outcome.value, "productIdentification", "category")
            = GroundingOrDefault("category", "Other")

\* a Success whose later phases named another product: the payload keeps
\* the grounding identity
C37_Witness ==
  /\ IsSuccess
  /\ LaterPhaseNamedAProduct
  /\ FieldOf(outcome.value, "productIdentification", "brand") = JStr("Nike")
  /\ FieldOf(outcome.value, "productIdentification", "model") = JStr("Air Max 90")
  /\ FieldOf(outcome.value, "productIdentification", "category") = JStr("Athletic Shoes")

\* ---------------------------------------------------------------------
\* Compliance is tested before review
\* ---------------------------------------------------------------------

\* the grounding answer is both non-compliant and flagged for review
NonCompliantAndReviewNeeded ==
  /\ groundingResult # Undefined
  /\ FieldOf(groundingResult, "compliance", "isEbayCompliant") = JBool(FALSE)
  /\ FieldOf(groundingResult, "recommendations", "reviewNeeded") = JBool(TRUE)

\* C38: when the grounding output is both non-compliant and flagged
\* reviewNeeded the run returns the Rejected object, never the
\* RequiresReview object, and every RequiresReview object that a run
\* returns carries rejected = false.
C38_ComplianceBeforeReview ==
  /\ NonCompliantAndReviewNeeded =>
       /\ pc = "returned"
       /\ outcome.kind = "returned"
       /\ Get(outcome.value, "rejected") = JBool(TRUE)
       /\ Get(outcome.value, "reason") = JStr("EBAY_POLICY_VIOLATION")
       /\ Get(outcome.value, "requiresReview") = Undefined
       /\ calls.physical = 0
  /\ (outcome.kind = "returned" /\ Get(outcome.value, "requiresReview") = JBool(TRUE)) =>
       /\ Get(outcome.value, "rejected") = JBool(FALSE)
       /\ Get(outcome.value, "reason") = JStr("MANUAL_REVIEW_REQUIRED")

\* a run rejected on an answer that also asked for review
C38_Witness ==
  /\ NonCompliantAndReviewNeeded
  /\ pc = "returned"
  /\ Get(outcome.value, "rejected") = JBool(TRUE)
  /\ Get(outcome.value, "details") = groundingResult

(***************************************************************************)
(* SetupService.ensureDefaultPolicies and its retry helper                 *)
(* (setup.service.js).  A step runs from one suspension point, a request   *)
(* in flight or a timer pending, to the next.                              *)
(***************************************************************************)
\* retry(fn, { retries = 5, baseDelay = 800, factor = 2 } = {})
Retries == 5

BaseDelay == 800

Factor == 2

\* the order of lines 49-74
PolicyTypes == <<"fulfillment", "payment", "return">>

PolicyLabel(type) ==
  CASE type = "fulfillment" -> "FULFILLMENT"
    [] type = "payment" -> "PAYMENT"
    [] type = "return" -> "RETURN"

\* what getPolicies resolves to: three arrays
Policies(fulfillment, payment, returns) ==
  [ fulfillmentPolicies |-> fulfillment,
    paymentPolicies |-> payment,
    returnPolicies |-> returns ]

PolicyList(policies, type) ==
  CASE type = "fulfillment" -> policies.fulfillmentPolicies
    [] type = "payment" -> policies.paymentPolicies
    [] type = "return" -> policies.returnPolicies

PolicyLists == {<<>>, <<"policy">>}

PolicySets == {Policies(f, p, r) : f \in PolicyLists, p \in PolicyLists, r \in PolicyLists}

\* an axios error with a response, and one without
HttpError(status, data) ==
  JObj([ message |-> JStr("Request failed"),
         response |-> JObj([status |-> JNum(status), data |-> data]) ])

NetworkError == JObj([message |-> JStr("socket hang up")])

EbayErrors ==
  JObj([errors |-> JArr(<<JObj([ errorId |-> JNum(20403),
                                 message |-> JStr("Invalid request") ])>>)])

\* e.response?.status
StatusOf(e) == OptGet(Get(e, "response"), "status")

\* v?.[0]
FirstOf(v) == IF v.t = "arr" /\ v.a # <<>> THEN v.a[1] ELSE Undefined

\* _normalizeError
NormalizeError(policy, e) ==
  LET data == OptGet(Get(e, "response"), "data") IN
    JObj([ policy |-> JStr(policy),
           status |-> StatusOf(e),
           errorId |-> OptGet(FirstOf(OptGet(data, "errors")), "errorId"),
           message |-> OptGet(FirstOf(OptGet(data, "errors")), "message"),
           raw |-> Or(data, Get(e, "message")) ])

\* how a request ends
Fulfilled(value) == [ok |-> TRUE, value |-> value, error |-> Undefined]

RejectedWith(e) == [ok |-> FALSE, value |-> Undefined, error |-> e]

OptInAnswers ==
  {Fulfilled(Undefined)} \cup
    {RejectedWith(e) : e \in {HttpError(409, EbayErrors), HttpError(500, JNull), NetworkError}}

PolicyAnswers ==
  {Fulfilled(p) : p \in PolicySets} \cup
    {RejectedWith(e) : e \in {HttpError(503, JNull), HttpError(500, JNull)}}

CreateAnswers ==
  {Fulfilled(Undefined)} \cup
    {RejectedWith(e) : e \in {HttpError(400, EbayErrors), HttpError(504, JObj(EmptyObj)),
                              NetworkError}}

\* an operation is invoked; the error it ends in is not known yet
Invoked(op) == [op |-> op, error |-> Undefined]

\* the last operation invoked ended in e
EndedIn(log, e) == [log EXCEPT ![Len(log)].error = e]

\* a seller with any policy at all passes
IsReadyWithAnyPolicy(finalPolicies) ==
  ~(/\ Len(finalPolicies.fulfillmentPolicies) = 0
    /\ Len(finalPolicies.paymentPolicies) = 0
    /\ Len(finalPolicies.returnPolicies) = 0)

\* lines 79-83, negated
IsReady(finalPolicies) ==
  ~(\/ Len(finalPolicies.fulfillmentPolicies) = 0
    \/ Len(finalPolicies.paymentPolicies) = 0
    \/ Len(finalPolicies.returnPolicies) = 0)

\* lines 84-88
NotReadyError(errors) ==
  JObj([ message |-> JStr("Seller account not ready for automatic policy setup"),
         details |-> JArr(errors),
         retryable |-> JBool(TRUE) ])

StageIndex(stage) ==
  CASE stage = "fetch" -> 0
    [] stage = "fulfillment" -> 1
    [] stage = "payment" -> 2
    [] stage = "return" -> 3

\* lines 50, 59, 68 and 77: after a stage, the next policy type that the
\* first fetch showed none of is created; after the last one, the final fetch
NextStage(stage, policies) ==
  LET missing == {i \in DOMAIN PolicyTypes :
                    i > StageIndex(stage) /\ Len(PolicyList(policies, PolicyTypes[i])) = 0}
  IN IF missing = {} THEN "verify"
     ELSE PolicyTypes[CHOOSE i \in missing : \A j \in missing : i <= j]

\* retry: if (attempt >= retries || ![503, 504].includes(status)) throw e
RetryGivesUp(att, e) == att >= Retries \/ StatusOf(e) \notin {JNum(503), JNum(504)}

\* retry(() => op): attempt = 0, fn() in flight
StartRetry(op, log) ==
  /\ upc' = op
  /\ uWait' = "call"
  /\ uAttempt' = 0
  /\ uLog' = Append(log, Invoked(op))

\* retry: delay = baseDelay * factor^attempt, then the timer
BacksOff ==
  /\ uWait' = "timer"
  /\ uDelay' = BaseDelay * Factor ^ uAttempt
  /\ UNCHANGED <<upc, uAttempt, uPolicies, uErrors, uFinal, uLog, uOutcome>>

\* the error leaves ensureDefaultPolicies
Propagates(e) ==
  /\ upc' = "thrown"
  /\ uWait' = "none"
  /\ uOutcome' = Thrown(e)
  /\ uLog' = EndedIn(uLog, e)
  /\ UNCHANGED <<uAttempt, uDelay, uPolicies, uErrors, uFinal>>

InitSetup ==
  /\ RetryParked
  /\ PipelineParked
  /\ CondensedParked
  /\ SanitizeParked
  /\ NormalizeParked
  /\ PhaseParked
  /\ ConcurrentParked
  /\ TriageParked
  /\ DraftParked
  /\ SetupParked

\* line 36: the opt-in request is sent
EnsureDefaultPolicies ==
  /\ upc = "idle"
  /\ upc' = "optIn"
  /\ uWait' = "call"
  /\ uLog' = <<Invoked("optIn")>>
  /\ UNCHANGED <<uAttempt, uDelay, uPolicies, uErrors, uFinal, uOutcome>>
  /\ UNCHANGED <<retryVars, pipelineVars, condensedVars, sanitizeVars, normalizeVars,
                 phaseVars, concurrentVars, triageVars, draftVars>>

\* lines 35-42: the opt-in request settles; a 409 is swallowed, then the
\* propagation timer of 1500 ms is set
OptInAnswered(answer) ==
  /\ upc = "optIn"
  /\ IF answer.ok
     THEN /\ upc' = "propagation"
          /\ uWait' = "timer"
          /\ UNCHANGED <<uAttempt, uDelay, uPolicies, uErrors, uFinal, uLog, uOutcome>>
     ELSE IF StatusOf(answer.error) # JNum(409)
     THEN Propagates(answer.error)
     ELSE /\ upc' = "propagation"
          /\ uWait' = "timer"
          /\ uLog' = EndedIn(uLog, answer.error)
          /\ UNCHANGED <<uAttempt, uDelay, uPolicies, uErrors, uFinal, uOutcome>>
  /\ UNCHANGED <<retryVars, pipelineVars, condensedVars, sanitizeVars, normalizeVars,
                 phaseVars, concurrentVars, triageVars, draftVars>>

\* lines 42-45: the propagation timer fires, the first fetch is sent
PropagationElapsed ==
  /\ upc = "propagation"
  /\ StartRetry("fetch", uLog)
  /\ UNCHANGED <<uDelay, uPolicies, uErrors, uFinal, uOutcome>>
  /\ UNCHANGED <<retryVars, pipelineVars, condensedVars, sanitizeVars, normalizeVars,
                 phaseVars, concurrentVars, triageVars, draftVars>>

\* lines 45-50: the first fetch settles
FetchAnswered(answer) ==
  /\ upc = "fetch"
  /\ uWait = "call"
  /\ IF answer.ok
     THEN /\ uPolicies' = answer.value
          /\ StartRetry(NextStage("fetch", answer.value), uLog)
          /\ UNCHANGED <<uDelay, uErrors, uFinal, uOutcome>>
     ELSE IF RetryGivesUp(uAttempt, answer.error)
     THEN Propagates(answer.error)
     ELSE BacksOff
  /\ UNCHANGED <<retryVars, pipelineVars, condensedVars, sanitizeVars, normalizeVars,
                 phaseVars, concurrentVars, triageVars, draftVars>>

\* lines 50-74: the creation request of one policy type settles
CreateAnswered(answer) ==
  /\ upc \in {"fulfillment", "payment", "return"}
  /\ uWait = "call"
  /\ IF answer.ok
     THEN /\ StartRetry(NextStage(upc, uPolicies), uLog)
          /\ UNCHANGED <<uDelay, uPolicies, uErrors, uFinal, uOutcome>>
     ELSE IF RetryGivesUp(uAttempt, answer.error)
     THEN /\ uErrors' = Append(uErrors, NormalizeError(PolicyLabel(upc), answer.error))
          /\ StartRetry(NextStage(upc, uPolicies), EndedIn(uLog, answer.error))
          /\ UNCHANGED <<uDelay, uPolicies, uFinal, uOutcome>>
     ELSE BacksOff
  /\ UNCHANGED <<retryVars, pipelineVars, condensedVars, sanitizeVars, normalizeVars,
                 phaseVars, concurrentVars, triageVars, draftVars>>

\* lines 77-92: the final fetch settles
VerifyAnswered(answer) ==
  /\ upc = "verify"
  /\ uWait = "call"
  /\ IF answer.ok
     THEN /\ uFinal' = answer.value
          /\ uWait' = "none"
          /\ IF IsReady(answer.value)
             THEN /\ upc' = "returned"
                  /\ uOutcome' = Returned(answer.value)
             ELSE /\ upc' = "thrown"
                  /\ uOutcome' = Thrown(NotReadyError(uErrors))
          /\ UNCHANGED <<uAttempt, uDelay, uPolicies, uErrors, uLog>>
     ELSE IF RetryGivesUp(uAttempt, answer.error)
     THEN Propagates(answer.error)
     ELSE BacksOff
  /\ UNCHANGED <<retryVars, pipelineVars, condensedVars, sanitizeVars, normalizeVars,
                 phaseVars, concurrentVars, triageVars, draftVars>>

\* retry, lines 22-23 and 12: the timer fires, attempt++, fn() again
RetryTimerElapsed ==
  /\ upc \in {"fetch", "fulfillment", "payment", "return", "verify"}
  /\ uWait = "timer"
  /\ uAttempt' = uAttempt + 1
  /\ uWait' = "call"
  /\ UNCHANGED <<upc, uDelay, uPolicies, uErrors, uFinal, uLog, uOutcome>>
  /\ UNCHANGED <<retryVars, pipelineVars, condensedVars, sanitizeVars, normalizeVars,
                 phaseVars, concurrentVars, triageVars, draftVars>>

NextSetup ==
  \/ EnsureDefaultPolicies
  \/ \E answer \in OptInAnswers : OptInAnswered(answer)
  \/ PropagationElapsed
  \/ \E answer \in PolicyAnswers : FetchAnswered(answer)
  \/ \E answer \in CreateAnswers : CreateAnswered(answer)
  \/ \E answer \in PolicyAnswers : VerifyAnswered(answer)
  \/ RetryTimerElapsed

SpecSetup == InitSetup /\ [][NextSetup]_vars

\* ---------------------------------------------------------------------
\* What ensureDefaultPolicies returns, throws and creates
\* ---------------------------------------------------------------------

\* the operation was invoked in this run
WasInvoked(op) == \E i \in DOMAIN uLog : uLog[i].op = op

IsFailedCreation(entry) ==
  entry.op \in {"fulfillment", "payment", "return"} /\ entry.error # Undefined

\* the creations that failed, in the order they were attempted, as
\* _normalizeError renders them
FailedCreations ==
  LET failed == SelectSeq(uLog, IsFailedCreation) IN
    [i \in 1..Len(failed) |-> NormalizeError(PolicyLabel(failed[i].op), failed[i].error)]

FinalFetchShowsAll ==
  /\ uFinal # Undefined
  /\ uFinal.fulfillmentPolicies # <<>>
  /\ uFinal.paymentPolicies # <<>>
  /\ uFinal.returnPolicies # <<>>

FinalFetchShowsGap == uFinal # Undefined /\ ~FinalFetchShowsAll

OptInFailed == uLog # <<>> /\ uLog[1].op = "optIn" /\ uLog[1].error # Undefined

\* C39: ensureDefaultPolicies returns only when the final fetch shows a
\* policy of each of the three types, and then returns that fetch; when
\* the final fetch shows a gap it throws an error with retryable = true
\* whose details are the creation errors.  A default policy of a type is
\* created only when the first fetch showed none of that type, every type
\* the first fetch showed none of is attempted before the final fetch
\* whatever the other creations ended in, an opt-in failure with status
\* 409 does not end the run, and any other opt-in failure is thrown before
\* any fetch or creation.
C39_EnsureDefaultPolicies ==
  /\ upc = "returned" => (FinalFetchShowsAll /\ uOutcome = Returned(uFinal))
  /\ FinalFetchShowsGap =>
       /\ upc = "thrown"
       /\ uOutcome.kind = "thrown"
       /\ Get(uOutcome.error, "retryable") = JBool(TRUE)
       /\ Get(uOutcome.error, "details") = JArr(FailedCreations)
  /\ \A i \in DOMAIN PolicyTypes :
       WasInvoked(PolicyTypes[i]) =>
         (uPolicies # Undefined /\ PolicyList(uPolicies, PolicyTypes[i]) = <<>>)
  /\ WasInvoked("verify") =>
       \A i \in DOMAIN PolicyTypes :
         PolicyList(uPolicies, PolicyTypes[i]) = <<>> => WasInvoked(PolicyTypes[i])
  /\ (OptInFailed /\ StatusOf(uLog[1].error) = JNum(409)) =>
       (upc # "thrown" \/ WasInvoked("fetch"))
  /\ (OptInFailed /\ StatusOf(uLog[1].error) # JNum(409)) =>
       /\ upc = "thrown"
       /\ uOutcome = Thrown(uLog[1].error)
       /\ Len(uLog) = 1
       /\ uPolicies = Undefined

\* after a swallowed 409 the first fetch showed no policy at all, the
\* fulfillment and return creations failed, the payment creation did
\* not, and the final fetch still shows a gap
C39_Witness ==
  /\ upc = "thrown"
  /\ OptInFailed
  /\ StatusOf(uLog[1].error) = JNum(409)
  /\ uPolicies = Policies(<<>>, <<>>, <<>>)
  /\ [i \in DOMAIN uLog |-> uLog[i].op]
       = <<"optIn", "fetch", "fulfillment", "payment", "return", "verify">>
  /\ FinalFetchShowsGap
  /\ Len(uErrors) = 2
  /\ Get(uErrors[1], "policy") = JStr("FULFILLMENT")
  /\ Get(uErrors[2], "policy") = JStr("RETURN")
  /\ Get(uOutcome.error, "details") = JArr(uErrors)

=============================================================================
